---- MODULE Spec2Model ----
(***************************************************************************)
(* PostSnap background worker: request capture (requestCapture.ts, kept in *)
(* the second half of src/src/background/postmanApi.ts), the Postman sync  *)
(* operations (postmanApi.ts) and the message handlers (index.ts).         *)
(*                                                                         *)
(* Strings the code inspects character by character (URLs, header names    *)
(* and values, body text) are sequences of one-character strings.  Opaque  *)
(* identifiers (collection ids, transport request ids) are atomic.         *)
(* An optional value (undefined / null) is <<>>, a present value v is <<v>>.*)
(***************************************************************************)
EXTENDS Integers, Sequences, FiniteSets, TLC

(***************************************************************************)
(* Bounds of the model                                                     *)
(***************************************************************************)
MaxEvents == 2        \* network transactions per behaviour
MaxTasks == 2         \* orchestrator invocations per behaviour
MaxStarts == 2        \* START_CAPTURE commands per behaviour
MaxStops == 1         \* STOP_CAPTURE commands per behaviour
MaxCommands == 2      \* other commands per behaviour
MaxTime == 2          \* largest clock value
MaxClears == 1        \* clear() calls per behaviour (SpecBuffer)
MaxRecords == 150     \* headers-ready events per behaviour (SpecBuffer)
MaxSyncEvents == 1    \* network transactions per behaviour (SpecSync)
MaxMessages == 2      \* messages received per behaviour (SpecMessages)
MaxEvictEvents == 101 \* network transactions per behaviour (SpecEvict)

(***************************************************************************)
(* Option values and small helpers                                         *)
(***************************************************************************)
None == <<>>
Some(x) == <<x>>
IsSome(o) == o /= <<>>
Val(o) == o[1]

Min(S) == CHOOSE x \in S : \A y \in S : x <= y
Max(S) == CHOOSE x \in S : \A y \in S : x >= y

(***************************************************************************)
(* JavaScript string primitives on character sequences                     *)
(***************************************************************************)
UpperChars == <<"A","B","C","D","E","F","G","H","I","J","K","L","M","N","O","P","Q","R","S","T","U","V","W","X","Y","Z">>
LowerChars == <<"a","b","c","d","e","f","g","h","i","j","k","l","m","n","o","p","q","r","s","t","u","v","w","x","y","z">>
DigitChars == {"0","1","2","3","4","5","6","7","8","9"}
HexChars == DigitChars \cup {"a","b","c","d","e","f","A","B","C","D","E","F"}
LetterChars == {UpperChars[i] : i \in 1..26} \cup {LowerChars[i] : i \in 1..26}

\* String.prototype.toLowerCase / toUpperCase, one character
LowerChar(c) == LET S == {i \in 1..26 : UpperChars[i] = c}
                IN IF S = {} THEN c ELSE LowerChars[CHOOSE i \in S : TRUE]
UpperChar(c) == LET S == {i \in 1..26 : LowerChars[i] = c}
                IN IF S = {} THEN c ELSE UpperChars[CHOOSE i \in S : TRUE]
toLowerCase(s) == [i \in 1..Len(s) |-> LowerChar(s[i])]
toUpperCase(s) == [i \in 1..Len(s) |-> UpperChar(s[i])]

startsWith(s, p) == Len(s) >= Len(p) /\ SubSeq(s, 1, Len(p)) = p
endsWith(s, p) == Len(s) >= Len(p) /\ SubSeq(s, Len(s) - Len(p) + 1, Len(s)) = p
\* index of the first occurrence of p in s at or after position i, 0 when none
indexOfFrom(s, p, i) ==
    LET S == {j \in i..(Len(s) - Len(p) + 1) : SubSeq(s, j, j + Len(p) - 1) = p}
    IN IF S = {} THEN 0 ELSE Min(S)
includes(s, p) == indexOfFrom(s, p, 1) /= 0
\* s.substring(n): the characters after the first n
substring(s, n) == SubSeq(s, n + 1, Len(s))
\* String.prototype.trim (the model's only white space is the blank)
trim(s) ==
    LET S == {j \in 1..Len(s) : s[j] /= " "}
    IN IF S = {} THEN <<>> ELSE SubSeq(s, Min(S), Max(S))
\* first position at or after i holding a character of cs, Len(s)+1 when none
FirstOf(s, i, cs) ==
    LET S == {j \in i..Len(s) : s[j] \in cs}
    IN IF S = {} THEN Len(s) + 1 ELSE Min(S)

\* number of consecutive characters of cs in s from position i on
RunLen(s, i, cs) == FirstOf(s, i, {s[j] : j \in 1..Len(s)} \ cs) - i

(***************************************************************************)
(* The URL strings of the inputs: of the network events, of the leaves of  *)
(* the documents and of the calls of the pure functions                    *)
(***************************************************************************)
U_A42 == <<"h","t","t","p","s",":","/","/","a",".","i","o","/","u","/","4","2">>
U_A7 == <<"h","t","t","p","s",":","/","/","a",".","i","o","/","u","/","7">>
U_B == <<"h","t","t","p","s",":","/","/","b",".","i","o","/","v">>
U_Png == <<"h","t","t","p","s",":","/","/","a",".","i","o","/","p",".","p","n","g">>
U_Chrome == <<"c","h","r","o","m","e",":","/","/","x">>
U_NoUrl == <<"n","o","u","r","l">>
O_Api == <<"h","t","t","p","s",":","/","/","a","p","i",".","x",".","c","o","m">>
O_Http == <<"H","T","T","P",":","/","/","h",":","8","0">>
P_Users123 == <<"/","a","p","i","/","u","s","e","r","s","/","1","2","3">>
P_Posts456 == <<"/","a","p","i","/","u","s","e","r","s","/","a","b","c","-","1","2","3","-","d","e","f","/","p","o","s","t","s","/","4","5","6">>
P_Uuid == <<"/","a","p","i","/","p","r","o","d","u","c","t","s","/","5","5","0","e","8","4","0","0","-","e","2","9","b","-","4","1","d","4","-","a","7","1","6","-","4","4","6","6","5","5","4","4","0","0","0","0">>
P_Oid1 == <<"/","i","t","e","m","s","/","5","0","7","f","1","f","7","7","b","c","f","8","6","c","d","7","9","9","4","3","9","0","1","1">>
P_Oid2 == <<"/","i","t","e","m","s","/","6","0","7","f","1","9","1","e","8","1","0","c","1","9","7","2","9","d","e","8","6","0","e","a">>
P_Items42 == <<"/","i","t","e","m","s","/","4","2">>
P_Items99 == <<"/","i","t","e","m","s","/","9","9">>
P_Mixed == <<"/","u","/","1","a","2","b","3","c","4","d","5">>
P_Users == <<"/","a","p","i","/","u","s","e","r","s">>
P_DigitsLetters == <<"/","v","/","1","2","a","b">>
P_File == <<"/","f","/","d","o","c","u","m","e","n","t",".","p","d","f">>
U_Urn == <<"u","r","n",":","a",":","b">>
U_Words == <<"n","o","t"," ","a"," ","u","r","l">>
U_Variable == <<"{","{","b","a","s","e","}","}","/","u","s","e","r","s","/","1">>
U_Mailto == <<"m","a","i","l","t","o",":","x","@","y",".","i","o">>
Origins == {O_Api, O_Http, <<>>}
Paths == {P_Users123, P_Posts456, P_Uuid, P_Oid1, P_Oid2, P_Items42, P_Items99, P_Mixed,
          P_Users, P_DigitsLetters, P_File, <<"/">>, <<>>}
Suffixes == {<<>>, <<"?","a","=","1">>, <<"#","t","o","p">>}
UrlInputs ==
    {o \o p \o x : o \in Origins, p \in Paths, x \in Suffixes}
        \cup {U_Urn, U_Words, U_Variable, U_Mailto, U_NoUrl, U_Chrome}
U_Items42 == O_Api \o P_Items42
U_Items7 == <<"h","t","t","p","s",":","/","/","a","p","i",".","x",".","c","o","m","/","i","t","e","m","s","/","7","?","x","=","1","#","f">>
U_Other99 == <<"h","t","t","p","s",":","/","/","o","t","h","e","r",".","i","o",":","8","4","4","3","/","i","t","e","m","s","/","9","9">>
U_Oid1 == O_Api \o P_Oid1
U_UpperUsers == <<"H","T","T","P","S",":","/","/","A","P","I",".","X",".","C","O","M",":","4","4","3","/","u","s","e","r","s">>
U_A1 == <<"h","t","t","p","s",":","/","/","a",".","i","o","/","u","/","1">>
U_A2 == <<"h","t","t","p","s",":","/","/","a",".","i","o","/","u","/","2">>
KnownUrls ==
    UrlInputs \cup {U_A42, U_A7, U_B, U_Png, U_A1, U_A2, U_Items7, U_Other99, U_UpperUsers}

(***************************************************************************)
(* new URL(u), after the URL Standard, for strings without control         *)
(* characters, backslashes, percent signs, dot segments, IPv6 literals and *)
(* ports above 65535:                                                      *)
(*   scheme ":" [ "//" [userinfo "@"] host [":" port] ] path               *)
(*          [ "?" query ] [ "#" fragment ]                                 *)
(* The scheme is a letter followed by letters, digits, "+", "-", ".".      *)
(* A special scheme (http, https, ws, wss, ftp) always has an authority:   *)
(* the slashes after its colon are skipped, however many there are, and    *)
(* its host is not empty.  Any other scheme has an authority only when     *)
(* "//" follows the colon; without it the rest is the path, opaque unless  *)
(* it starts with "/".  The constructor throws when a step fails.          *)
(***************************************************************************)
SchemeChars == LetterChars \cup DigitChars \cup {"+", "-", "."}
SpecialSchemes ==
    { <<"h","t","t","p">>, <<"h","t","t","p","s">>, <<"w","s">>, <<"w","s","s">>,
      <<"f","t","p">> }
DefaultPort(scheme) ==
    CASE scheme \in { <<"h","t","t","p">>, <<"w","s">> } -> <<"8","0">>
      [] scheme \in { <<"h","t","t","p","s">>, <<"w","s","s">> } -> <<"4","4","3">>
      [] scheme = <<"f","t","p">> -> <<"2","1">>
      [] OTHER -> <<>>

\* position of the colon that ends the scheme, 0 when u starts with no scheme
SchemeEnd(u) ==
    CHOOSE r \in { IF /\ k > 1 /\ k <= Len(u)
                      /\ u[1] \in LetterChars
                      /\ \A j \in 2..(k - 1) : u[j] \in SchemeChars
                   THEN k ELSE 0 : k \in {FirstOf(u, 1, {":"})} } : TRUE

\* the last position of s holding c, 0 when none
LastOf(s, c) == Max({0} \cup {j \in 1..Len(s) : s[j] = c})
\* the authority without its userinfo
HostPort(a) == SubSeq(a, LastOf(a, "@") + 1, Len(a))
\* position of the colon before the port, Len(hp)+1 when there is no port
PortColon(hp) ==
    CHOOSE r \in { IF c = 0 THEN Len(hp) + 1 ELSE c : c \in {LastOf(hp, ":")} } : TRUE
\* the digits of the port without leading zeros
PortText(t) ==
    CHOOSE r \in { IF t = <<>> THEN <<>>
                   ELSE IF n = Len(t) THEN <<"0">>
                   ELSE SubSeq(t, n + 1, Len(t)) : n \in {RunLen(t, 1, {"0"})} } : TRUE
HostText(special, name) == IF special THEN toLowerCase(name) ELSE name

\* The parser goes through the string once, each step from the values the
\* steps before computed.  A step is written CHOOSE r \in {F(x) : x \in {e}} : TRUE,
\* which is F(e) with e evaluated once.

\* the URL record: ok FALSE when the constructor throws
UrlRecord(scheme, special, name, port, pathname) ==
    [ok |-> /\ special => name /= <<>>
            /\ \A j \in 1..Len(name) : name[j] \notin {" ", ":"}
            /\ \A j \in 1..Len(port) : port[j] \in DigitChars,
     protocol |-> scheme,
     host |-> IF port = <<>> \/ port = DefaultPort(scheme) THEN name
              ELSE name \o <<":">> \o port,
     pathname |-> pathname]

\* hp: the authority without userinfo; c: the position of its port colon
UrlFromPort(scheme, special, hp, c, pathname) ==
    CHOOSE r \in { UrlRecord(scheme, special, name, port, pathname) :
                      name \in {HostText(special, SubSeq(hp, 1, c - 1))},
                      port \in {PortText(SubSeq(hp, c + 1, Len(hp)))} } : TRUE

\* e: the first position after the authority; q: the first position after the path
UrlFromPath(u, scheme, special, hp, e, q) ==
    CHOOSE r \in { UrlFromPort(scheme, special, hp, c, pathname) :
                      c \in {PortColon(hp)},
                      pathname \in {IF q = e /\ special THEN <<"/">>
                                    ELSE SubSeq(u, e, q - 1)} } : TRUE

\* h: the first position of the authority
UrlFromHostPort(u, scheme, special, h, e) ==
    CHOOSE r \in { UrlFromPath(u, scheme, special, hp, e, q) :
                      hp \in {HostPort(SubSeq(u, h, e - 1))},
                      q \in {FirstOf(u, e, {"?", "#"})} } : TRUE

\* the authority is empty when there is none
UrlFromHost(u, scheme, special, authority, h) ==
    CHOOSE r \in { UrlFromHostPort(u, scheme, special, h, e) :
                      e \in {IF authority THEN FirstOf(u, h, {"/", "?", "#"}) ELSE h} } : TRUE

\* k: the position of the colon that ends the scheme
UrlFromAuthority(u, k, scheme, special, authority) ==
    CHOOSE r \in { UrlFromHost(u, scheme, special, authority, h) :
                      h \in {IF special THEN k + 1 + RunLen(u, k + 1, {"/"})
                             ELSE IF authority THEN k + 3 ELSE k + 1} } : TRUE

UrlFromSpecial(u, k, scheme) ==
    CHOOSE r \in { UrlFromAuthority(u, k, scheme, special, authority) :
                      special \in {scheme \in SpecialSchemes},
                      authority \in {\/ scheme \in SpecialSchemes
                                     \/ startsWith(substring(u, k), <<"/","/">>)} } : TRUE

UrlFromScheme(u, k) ==
    IF k = 0 THEN [ok |-> FALSE]
    ELSE CHOOSE r \in { UrlFromSpecial(u, k, scheme) :
                           scheme \in {toLowerCase(SubSeq(u, 1, k - 1))} } : TRUE

UrlFromString(u) == CHOOSE r \in { UrlFromScheme(u, k) : k \in {SchemeEnd(u)} } : TRUE

\* new URL of each input string, parsed once for all
ParsedUrls == [u \in KnownUrls |-> UrlFromString(u)]
\* new URL(u)
ParseUrl(u) ==
    CHOOSE r \in { IF url \in KnownUrls THEN ParsedUrls[url] ELSE UrlFromString(url) :
                      url \in {u} } : TRUE

UrlParses(u) == ParseUrl(u).ok
\* URL.protocol without its trailing ':'
UrlScheme(u) == ParseUrl(u).protocol
\* URL.host: host[:port], the host of a special scheme in lower case, the
\* port left out when it is the default of the scheme
UrlHost(u) == ParseUrl(u).host
\* URL.pathname: the path; "/" when a special URL has none
UrlPathname(u) == ParseUrl(u).pathname

(***************************************************************************)
(* authDetector.ts                                                         *)
(***************************************************************************)
S_Bearer == <<"B","e","a","r","e","r"," ">>
S_Basic == <<"B","a","s","i","c"," ">>
S_authorization == <<"a","u","t","h","o","r","i","z","a","t","i","o","n">>
S_Authorization == <<"A","u","t","h","o","r","i","z","a","t","i","o","n">>
S_xapikey == <<"x","-","a","p","i","-","k","e","y">>
S_api_key == <<"a","p","i","-","k","e","y">>
S_apikey == <<"a","p","i","k","e","y">>
S_cookie == <<"c","o","o","k","i","e">>
\* the session cookie patterns, written in lower case: every pattern has the i flag
sessionPatterns ==
    { <<"s","e","s","s","i","o","n","i","d","=">>,
      <<"s","e","s","s","i","o","n","=">>,
      <<"s","i","d","=">>,
      <<"c","o","n","n","e","c","t",".","s","i","d","=">>,
      <<"p","h","p","s","e","s","s","i","d","=">>,
      <<"j","s","e","s","s","i","o","n","i","d","=">>,
      <<"a","s","p",".","n","e","t","_","s","e","s","s","i","o","n","i","d","=">> }

\* what one header decides, None when the loop goes on to the next header
detectAuthHeader(header) ==
    LET name == toLowerCase(header.key)
        value == header.value
    IN IF name = S_authorization /\ startsWith(value, S_Bearer)
         THEN Some([type |-> "bearer", value |-> Some(trim(substring(value, 7)))])
       ELSE IF name = S_authorization /\ startsWith(value, S_Basic)
         THEN Some([type |-> "basic", value |-> Some(trim(substring(value, 6)))])
       ELSE IF \/ name = S_xapikey \/ name = S_api_key \/ name = S_apikey
               \/ includes(name, S_api_key) \/ includes(name, S_apikey)
         THEN Some([type |-> "apikey", value |-> Some(value)])
       ELSE IF name = S_cookie /\ \E p \in sessionPatterns : includes(toLowerCase(value), p)
         THEN Some([type |-> "cookie", value |-> Some(value)])
       ELSE None

RECURSIVE detectAuthFrom(_, _)
detectAuthFrom(headers, i) ==
    IF i > Len(headers) THEN [type |-> "none", value |-> None]
    ELSE IF IsSome(detectAuthHeader(headers[i])) THEN Val(detectAuthHeader(headers[i]))
    ELSE detectAuthFrom(headers, i + 1)

detectAuthType(headers) == detectAuthFrom(headers, 1)

(***************************************************************************)
(* urlMatcher.ts                                                           *)
(***************************************************************************)
S_id == <<"/",":","i","d">>

\* Each pass is String.replace with a global regular expression that starts
\* with "/": MatchEnd is the last position of the match starting at the "/"
\* in position i, 0 when the expression does not match there.
UuidMatchEnd(s, i) ==
    IF /\ i + 36 <= Len(s)
       /\ \A k \in 1..36 : IF k \in {9, 14, 19, 24} THEN s[i + k] = "-"
                                                      ELSE s[i + k] \in HexChars
    THEN i + 36 ELSE 0
NumericMatchEnd(s, i) ==
    IF RunLen(s, i + 1, DigitChars) >= 1 THEN i + RunLen(s, i + 1, DigitChars) ELSE 0
TokenChars == LetterChars \cup DigitChars \cup {"_", "-"}
TokenMatchEnd(s, i) ==
    IF RunLen(s, i + 1, TokenChars) >= 8 THEN i + RunLen(s, i + 1, TokenChars) ELSE 0
ObjectIdMatchEnd(s, i) ==
    IF RunLen(s, i + 1, HexChars) >= 24 THEN i + 24 ELSE 0

PassMatchEnd(pass, s, i) ==
    IF s[i] /= "/" THEN 0
    ELSE CASE pass = 1 -> UuidMatchEnd(s, i)
           [] pass = 2 -> NumericMatchEnd(s, i)
           [] pass = 3 -> TokenMatchEnd(s, i)
           [] pass = 4 -> ObjectIdMatchEnd(s, i)

RECURSIVE ReplacePass(_, _, _)
ReplacePass(pass, s, i) ==
    IF i > Len(s) THEN <<>>
    ELSE IF PassMatchEnd(pass, s, i) > 0
      THEN S_id \o ReplacePass(pass, s, PassMatchEnd(pass, s, i) + 1)
      ELSE <<s[i]>> \o ReplacePass(pass, s, i + 1)

\* variant: no catch block, a string that does not parse gives the exception
normalizeUrlNoCatch(url) ==
    CHOOSE r \in { IF urlObj.ok
                   THEN ReplacePass(4, ReplacePass(3, ReplacePass(2, ReplacePass(1, urlObj.pathname, 1), 1), 1), 1)
                   ELSE <<"TypeError: Invalid URL">> : urlObj \in {ParseUrl(url)} } : TRUE

normalizeUrl(url) ==
    CHOOSE r \in { IF urlObj.ok
                   THEN ReplacePass(4, ReplacePass(3, ReplacePass(2, ReplacePass(1, urlObj.pathname, 1), 1), 1), 1)
                   ELSE url : urlObj \in {ParseUrl(url)} } : TRUE

(***************************************************************************)
(* A node of a collection document is [name, item, request]: item the      *)
(* optional list of children of a folder, request the optional request of  *)
(* a leaf.  A request is [method, header, url, body, auth]; its url is     *)
(* optional and is [kind, raw, protocol, host, path, query], kind "string" *)
(* for a bare string (raw) and "object" for a PostmanUrl.                  *)
(* A search returns the position of the node it found: the path of         *)
(* indices from the top-level list down to it.                             *)
(***************************************************************************)
\* throws (is not defined) when the request has no url: callers test CanExtract
CanExtractUrl(node) == IsSome(Val(node.request).url)
extractPostmanUrl(node) == Val(Val(node.request).url).raw

IsFolder(node) == IsSome(node.item)
IsLeaf(node) == IsSome(node.request)

RECURSIVE NodeAt(_, _)
NodeAt(items, path) ==
    IF Len(path) = 1 THEN items[path[1]]
    ELSE NodeAt(Val(items[path[1]].item), Tail(path))

RECURSIVE ReplaceAt(_, _, _)
ReplaceAt(items, path, node) ==
    IF Len(path) = 1 THEN [items EXCEPT ![path[1]] = node]
    ELSE [items EXCEPT ![path[1]].item =
              Some(ReplaceAt(Val(items[path[1]].item), Tail(path), node))]

PatternMatches(capturedUrl, node) ==
    /\ IsLeaf(node)
    /\ CanExtractUrl(node)
    /\ normalizeUrl(capturedUrl) = normalizeUrl(extractPostmanUrl(node))

RECURSIVE findMatchingRequestFrom(_, _, _)
findMatchingRequestFrom(capturedUrl, postmanRequests, i) ==
    IF i > Len(postmanRequests) THEN None
    ELSE LET item == postmanRequests[i]
             inFolder == IF IsFolder(item)
                         THEN findMatchingRequestFrom(capturedUrl, Val(item.item), 1)
                         ELSE None
         IN IF IsSome(inFolder) THEN Some(<<i>> \o Val(inFolder))
            ELSE IF PatternMatches(capturedUrl, item) THEN Some(<<i>>)
            ELSE findMatchingRequestFrom(capturedUrl, postmanRequests, i + 1)

\* variant: the leaves of a level are tested before its folders are searched
findMatchingRequestLevelFirst(capturedUrl, postmanRequests) ==
    LET S == {k \in 1..Len(postmanRequests) : PatternMatches(capturedUrl, postmanRequests[k])}
    IN IF S /= {} THEN Some(<<Min(S)>>)
       ELSE findMatchingRequestFrom(capturedUrl, postmanRequests, 1)

findMatchingRequest(capturedUrl, postmanRequests) ==
    findMatchingRequestFrom(capturedUrl, postmanRequests, 1)

\* variant: the method is not compared
PatternMatchesAnyMethod(capturedUrl, method, node) == PatternMatches(capturedUrl, node)

PatternMethodMatches(capturedUrl, method, node) ==
    /\ PatternMatches(capturedUrl, node)
    /\ LET m == Val(node.request).method
           postmanMethod == IF IsSome(m) /\ toUpperCase(Val(m)) /= <<>>
                            THEN toUpperCase(Val(m)) ELSE <<"G","E","T">>
       IN toUpperCase(method) = postmanMethod

RECURSIVE findMatchingRequestWithMethodFrom(_, _, _, _)
findMatchingRequestWithMethodFrom(capturedUrl, method, items, i) ==
    IF i > Len(items) THEN None
    ELSE LET item == items[i]
             inFolder == IF IsFolder(item)
                         THEN findMatchingRequestWithMethodFrom(capturedUrl, method, Val(item.item), 1)
                         ELSE None
         IN IF IsSome(inFolder) THEN Some(<<i>> \o Val(inFolder))
            ELSE IF PatternMethodMatches(capturedUrl, method, item) THEN Some(<<i>>)
            ELSE findMatchingRequestWithMethodFrom(capturedUrl, method, items, i + 1)

findMatchingRequestWithMethod(capturedUrl, method, postmanRequests) ==
    findMatchingRequestWithMethodFrom(capturedUrl, method, postmanRequests, 1)

HostMatches(host, node) ==
    /\ IsLeaf(node)
    /\ CanExtractUrl(node)
    /\ \E urlObj \in {ParseUrl(extractPostmanUrl(node))} : urlObj.ok /\ urlObj.host = host

\* variant: folders are not searched
findTopLevelForHostFrom(host, items, i) ==
    LET S == {k \in i..Len(items) : HostMatches(host, items[k])}
        nth[n \in 0..Cardinality(S)] ==
            IF n = 0 THEN 0 ELSE Min({k \in S : k > nth[n - 1]})
    IN [n \in 1..Cardinality(S) |-> <<nth[n]>>]

\* the list of the positions of the matches, in the order they are pushed
RECURSIVE findAllRequestsForHostFrom(_, _, _)
findAllRequestsForHostFrom(host, items, i) ==
    IF i > Len(items) THEN <<>>
    ELSE LET item == items[i]
             inFolder == IF IsFolder(item)
                         THEN findAllRequestsForHostFrom(host, Val(item.item), 1)
                         ELSE <<>>
         IN [k \in 1..Len(inFolder) |-> <<i>> \o inFolder[k]]
            \o (IF HostMatches(host, item) THEN << <<i>> >> ELSE <<>>)
            \o findAllRequestsForHostFrom(host, items, i + 1)

\* variant: no try around a leaf, so a leaf of the list whose URL is missing or
\* does not parse ends the call with its exception (<< <<0>> >>)
findAllRequestsForHostNoCatch(host, postmanRequests) ==
    LET S == {k \in 1..Len(postmanRequests) :
                 /\ IsLeaf(postmanRequests[k])
                 /\ ~(/\ CanExtractUrl(postmanRequests[k])
                      /\ UrlParses(extractPostmanUrl(postmanRequests[k])))}
    IN IF S /= {} THEN << <<0>> >>
       ELSE findAllRequestsForHostFrom(host, postmanRequests, 1)

findAllRequestsForHost(host, postmanRequests) ==
    findAllRequestsForHostFrom(host, postmanRequests, 1)

\* the list of the positions of the pattern matches, in the order pushed
RECURSIVE findAllMatchingRequestsFrom(_, _, _)
findAllMatchingRequestsFrom(capturedUrl, items, i) ==
    IF i > Len(items) THEN <<>>
    ELSE LET item == items[i]
             inFolder == IF IsFolder(item)
                         THEN findAllMatchingRequestsFrom(capturedUrl, Val(item.item), 1)
                         ELSE <<>>
         IN [k \in 1..Len(inFolder) |-> <<i>> \o inFolder[k]]
            \o (IF PatternMatches(capturedUrl, item) THEN << <<i>> >> ELSE <<>>)
            \o findAllMatchingRequestsFrom(capturedUrl, items, i + 1)

\* variant: folders are not searched
findAllMatchingTopLevel(capturedUrl, postmanRequests) ==
    LET S == {k \in 1..Len(postmanRequests) : PatternMatches(capturedUrl, postmanRequests[k])}
        nth[n \in 0..Cardinality(S)] ==
            IF n = 0 THEN 0 ELSE Min({k \in S : k > nth[n - 1]})
    IN [n \in 1..Cardinality(S) |-> <<nth[n]>>]

findAllMatchingRequests(capturedUrl, postmanRequests) ==
    findAllMatchingRequestsFrom(capturedUrl, postmanRequests, 1)

(***************************************************************************)
(* requestCapture.ts: filters and body decoding                            *)
(***************************************************************************)
MAX_REQUESTS == 100

internalPrefixes ==
    { <<"c","h","r","o","m","e",":","/","/">>,
      <<"c","h","r","o","m","e","-","e","x","t","e","n","s","i","o","n",":","/","/">>,
      <<"e","d","g","e",":","/","/">>,
      <<"a","b","o","u","t",":">>,
      <<"d","a","t","a",":">>,
      <<"b","l","o","b",":">> }
staticExtensions ==
    { <<".","p","n","g">>, <<".","j","p","g">>, <<".","j","p","e","g">>, <<".","g","i","f">>,
      <<".","s","v","g">>, <<".","i","c","o">>, <<".","w","o","f","f">>,
      <<".","w","o","f","f","2">>, <<".","t","t","f">>, <<".","e","o","t">> }

\* variant: nothing is filtered by its URL
shouldCaptureAnything(url) == TRUE

shouldCaptureRequest(url) ==
    /\ \A p \in internalPrefixes : ~startsWith(url, p)
    /\ \A ext \in staticExtensions : ~endsWith(toLowerCase(url), ext)

\* variant: the request type is not tested
isAnyType(type) == TRUE

\* the type test both listeners make after shouldCaptureRequest
isApiType(type) == type = "xmlhttprequest" \/ type = "fetch"

(***************************************************************************)
(* A JavaScript value the capture keeps as a body is [t, v]: t its typeof  *)
(* and v its text (for an object, the JSON or form text it was built from).*)
(* JSON.parse is modelled on the model's body texts: a text in braces is   *)
(* an object, a text of digits a number, anything else does not parse.     *)
(***************************************************************************)
JsonParses(text) ==
    \/ Len(text) >= 2 /\ text[1] = "{" /\ text[Len(text)] = "}"
    \/ Len(text) >= 1 /\ \A i \in 1..Len(text) : text[i] \in DigitChars
JsonParse(text) ==
    IF text[1] = "{" THEN [t |-> "object", v |-> text] ELSE [t |-> "number", v |-> text]

\* details.requestBody is [formData, raw]: formData an optional form text,
\* raw an optional list of upload elements, each with optional bytes (text)
formatRequestBody(body) ==
    IF ~IsSome(body) THEN None
    ELSE IF IsSome(Val(body).formData) THEN Some([t |-> "object", v |-> Val(Val(body).formData)])
    ELSE IF IsSome(Val(body).raw) /\ Len(Val(Val(body).raw)) > 0
      THEN LET rawData == Val(Val(body).raw)[1]
           IN IF IsSome(rawData.bytes)
                THEN IF JsonParses(Val(rawData.bytes))
                       THEN Some(JsonParse(Val(rawData.bytes)))
                       ELSE Some([t |-> "string", v |-> Val(rawData.bytes)])
                ELSE None
    ELSE None

(***************************************************************************)
(* Inputs of the model                                                     *)
(***************************************************************************)
H_A == <<"a",".","i","o">>
H_B == <<"b",".","i","o">>
M_GET == <<"G","E","T">>
M_POST == <<"P","O","S","T">>

Hosts == {H_A, H_B}
Collections == {"c1", "c2"}
ReqIds == {"r1", "r2"}

B_Text == Some([formData |-> None, raw |-> Some(<<[bytes |-> Some(<<"h","i">>)]>>)])
B_Json == Some([formData |-> None, raw |-> Some(<<[bytes |-> Some(<<"{","}">>)]>>)])
B_File == Some([formData |-> None, raw |-> Some(<<[bytes |-> None]>>)])
B_Form == Some([formData |-> Some(<<"a","=","1">>), raw |-> None])

HL_None == None
HL_Bearer == Some(<<[name |-> S_Authorization, value |-> Some(<<"B","e","a","r","e","r"," ","t">>)]>>)
HL_NoValue == Some(<<[name |-> <<"A","c","c","e","p","t">>, value |-> None]>>)

(***************************************************************************)
(* State                                                                   *)
(***************************************************************************)
VARIABLES
    capturedRequests,   \* the buffer, newest first
    requestBodies,      \* Map requestId -> details.requestBody
    hostMap,            \* Map host -> HostInfo
    captureState,       \* the CaptureState object the module variable holds
    onCaptureCallback,  \* None, or the closure: the collection id it captured
    now,                \* Date.now()
    nextId,             \* stands for the fresh id Date.now()-random gives
    inflight,           \* network: per transport id, the transaction whose
                        \*   pre-send event was delivered and whose
                        \*   headers-ready event was not yet
    tasks,              \* the orchestrator invocations started so far
    finalState,         \* what the last stopCapture returned
    apiKey,             \* chrome.storage.local: the stored Postman API key
    remote,             \* the Postman service: collection id -> document
    messages,           \* the messages received, each with the responses sent
    probe,              \* a call of a pure function: its arguments and result
    hist                \* history: what the environment did, for the claims

vars == <<capturedRequests, requestBodies, hostMap, captureState,
          onCaptureCallback, now, nextId, inflight, tasks, finalState,
          apiKey, remote, messages, probe, hist>>

\* Map.set / Map.delete / Map.get on a function with a finite domain
MapSet(m, k, v) == [x \in (DOMAIN m) \cup {k} |-> IF x = k THEN v ELSE m[x]]
\* variant: the entry is left in the map
MapDeleteNothing(m, k) == m
MapDelete(m, k) == [x \in (DOMAIN m) \ {k} |-> m[x]]
MapGet(m, k) == IF k \in DOMAIN m THEN Some(m[k]) ELSE None
EmptyMap == [x \in {} |-> x]

IdleState ==
    [isCapturing |-> FALSE, targetHost |-> None, collectionId |-> None,
     capturedCount |-> 0, syncedCount |-> 0]

(***************************************************************************)
(* postmanApi.ts: formatting a captured request as a collection leaf       *)
(***************************************************************************)
RECURSIVE split(_, _)
split(s, c) ==
    IF FirstOf(s, 1, {c}) > Len(s) THEN <<s>>
    ELSE <<SubSeq(s, 1, FirstOf(s, 1, {c}) - 1)>>
         \o split(SubSeq(s, FirstOf(s, 1, {c}) + 1, Len(s)), c)
NonEmpty(s) == s /= <<>>

\* URL.hostname: the host without the port
UrlHostname(u) == SubSeq(UrlHost(u), 1, FirstOf(UrlHost(u), 1, {":"}) - 1)
\* the text between '?' and '#', empty when the URL has no query
UrlSearch(u) ==
    LET q == FirstOf(u, 1, {"?", "#"})
    IN IF q > Len(u) \/ u[q] = "#" THEN <<>>
       ELSE SubSeq(u, q + 1, FirstOf(u, q + 1, {"#"}) - 1)
\* Array.from(url.searchParams) as key/value pairs
UrlQuery(u) ==
    LET parts == SelectSeq(split(UrlSearch(u), "&"), NonEmpty)
    IN [k \in 1..Len(parts) |->
          LET e == FirstOf(parts[k], 1, {"="})
          IN [key |-> SubSeq(parts[k], 1, e - 1),
              value |-> SubSeq(parts[k], e + 1, Len(parts[k]))]]

\* JavaScript truthiness of a body value
Truthy(b) ==
    \/ b.t = "object"
    \/ b.t = "string" /\ b.v /= <<>>
    \/ b.t = "number" /\ \E i \in 1..Len(b.v) : b.v[i] /= "0"
\* JSON.stringify(value, null, 2) of the model's objects: the empty object
\* prints as it is, any other object gets its members on lines of their own
JsonPretty(v) ==
    IF v = <<"{","}">> THEN v
    ELSE <<"{", "\n", " ", " ">> \o SubSeq(v, 2, Len(v) - 1) \o <<"\n", "}">>

formatBody(request) ==
    IF IsSome(request.body) /\ Truthy(Val(request.body))
    THEN IF Val(request.body).t = "object"
           THEN Some([mode |-> "raw", raw |-> JsonPretty(Val(request.body).v), language |-> Some("json")])
           ELSE Some([mode |-> "raw", raw |-> Val(request.body).v, language |-> None])
    ELSE None

formatAuth(request) ==
    IF request.authType /= "none" /\ IsSome(request.authValue) /\ Val(request.authValue) /= <<>>
    THEN CASE request.authType = "bearer" ->
                Some([type |-> "bearer",
                      entries |-> <<[key |-> "token", value |-> Val(request.authValue)]>>])
           [] request.authType = "basic" ->
                Some([type |-> "basic",
                      entries |-> <<[key |-> "password", value |-> Val(request.authValue)]>>])
           [] request.authType = "apikey" ->
                Some([type |-> "apikey",
                      entries |-> <<[key |-> "key", value |-> S_Authorization],
                                    [key |-> "value", value |-> Val(request.authValue)]>>])
           [] OTHER -> None
    ELSE None

\* new URL(request.url) throws on an unparseable url: callers test CanFormat
CanFormat(request) == UrlParses(request.url)
formatRequestForPostman(request) ==
    [name |-> request.method \o <<" ">> \o UrlPathname(request.url),
     item |-> None,
     request |-> Some(
        [method |-> Some(request.method),
         header |-> Some([k \in 1..Len(request.headers) |->
                            [key |-> request.headers[k].key, value |-> request.headers[k].value]]),
         url |-> Some([kind |-> "object",
                       raw |-> request.url,
                       protocol |-> UrlScheme(request.url),
                       host |-> split(UrlHostname(request.url), "."),
                       path |-> SelectSeq(split(UrlPathname(request.url), "/"), NonEmpty),
                       query |-> UrlQuery(request.url)]),
         body |-> formatBody(request),
         auth |-> formatAuth(request)])]

(***************************************************************************)
(* postmanApi.ts: what each operation does between the response of its     *)
(* fetch and its write.  The result is [ok, doc, tag]: ok FALSE when the   *)
(* operation throws before writing, doc the document it then puts.         *)
(***************************************************************************)
ItemsOf(collection) == IF IsSome(collection.item) THEN Val(collection.item) ELSE <<>>

\* a character sequence as the string a template literal interpolates
RECURSIVE Join(_)
Join(s) == IF s = <<>> THEN "" ELSE s[1] \o Join(Tail(s))

\* the messages of the errors the operations throw
E_NoApiKey == "Postman API key not configured. Please add your API key in Settings."
E_NoMatch == "No matching request found in collection. The URL pattern does not match any existing requests."
E_NoRequestsForHost(host) == "No requests found for host \"" \o Join(host) \o "\" in this collection."
\* TypeError of new URL(request.url)
E_InvalidUrl == "Failed to construct 'URL': Invalid URL"
\* TypeError of request.header.findIndex on a leaf without a header list
E_NoHeaderList == "Cannot read properties of undefined (reading 'findIndex')"

\* what an operation returns: requestName of create, update-by-match and
\* upsert (whose action is the tag); the three fields of BulkTokenUpdateResult
NoResult == [requestName |-> <<>>, updatedCount |-> 0, totalMatched |-> 0, requestNames |-> <<>>]
Named(name) == [NoResult EXCEPT !.requestName = name]

Thrown(collection, tag, error) ==
    [ok |-> FALSE, doc |-> collection, tag |-> tag, error |-> error, result |-> NoResult]
Put(collection, tag, result) ==
    [ok |-> TRUE, doc |-> collection, tag |-> tag, error |-> "", result |-> result]

\* variant: nothing is appended when a leaf of the same pattern and method exists
createLocalSkipsDuplicate(collection, capturedRequest) ==
    IF ~CanFormat(capturedRequest) THEN Thrown(collection, "invalid-url", E_InvalidUrl)
    ELSE IF IsSome(findMatchingRequestWithMethod(capturedRequest.url, capturedRequest.method,
                                                 ItemsOf(collection)))
      THEN Put(collection, "created", Named(formatRequestForPostman(capturedRequest).name))
    ELSE Put([collection EXCEPT !.item =
                 Some(Append(ItemsOf(collection), formatRequestForPostman(capturedRequest)))],
             "created", Named(formatRequestForPostman(capturedRequest).name))

createLocal(collection, capturedRequest) ==
    IF ~CanFormat(capturedRequest) THEN Thrown(collection, "invalid-url", E_InvalidUrl)
    ELSE Put([collection EXCEPT !.item =
                 Some(Append(ItemsOf(collection), formatRequestForPostman(capturedRequest)))],
             "created", Named(formatRequestForPostman(capturedRequest).name))

\* variant: every credential type gets the Bearer prefix
newAuthValuePrefixed(authType, authValue) == S_Bearer \o authValue

\* the new value of the Authorization header
newAuthValue(authType, authValue) ==
    IF authType = "bearer" THEN S_Bearer \o authValue ELSE authValue

\* the leaf with its Authorization header replaced, or appended when absent
\* (header.findIndex throws when the leaf has no header list: CanSetAuth)
CanSetAuth(node) == IsSome(Val(node.request).header)
setAuthHeader(node, value) ==
    LET header == Val(Val(node.request).header)
        S == {k \in 1..Len(header) : toLowerCase(header[k].key) = S_authorization}
        newHeader == IF S /= {}
                     THEN [header EXCEPT ![Min(S)].value = value]
                     ELSE Append(header, [key |-> S_Authorization, value |-> value])
    IN [node EXCEPT !.request = Some([Val(node.request) EXCEPT !.header = Some(newHeader)])]

OrEmpty(o) == IF IsSome(o) THEN Val(o) ELSE <<>>

\* variant: a request that matches nothing is appended as a new leaf
updateTokenLocalCreates(collection, capturedRequest) ==
    LET matchedRequest == findMatchingRequest(capturedRequest.url, ItemsOf(collection))
    IN IF ~IsSome(matchedRequest)
         THEN Put([collection EXCEPT !.item =
                      Some(Append(ItemsOf(collection), formatRequestForPostman(capturedRequest)))],
                  "token-updated", Named(formatRequestForPostman(capturedRequest).name))
       ELSE Put([collection EXCEPT !.item = Some(ReplaceAt(ItemsOf(collection), Val(matchedRequest),
                    setAuthHeader(NodeAt(ItemsOf(collection), Val(matchedRequest)),
                                  newAuthValue(capturedRequest.authType,
                                               OrEmpty(capturedRequest.authValue)))))],
                "token-updated",
                Named(NodeAt(ItemsOf(collection), Val(matchedRequest)).name))

\* variant: a request without credential is refused
updateTokenLocalGuarded(collection, capturedRequest) ==
    LET matchedRequest == findMatchingRequest(capturedRequest.url, ItemsOf(collection))
    IN IF ~IsSome(matchedRequest) \/ capturedRequest.authType = "none"
         THEN Thrown(collection, "no-matching-request", E_NoMatch)
       ELSE IF ~CanSetAuth(NodeAt(ItemsOf(collection), Val(matchedRequest)))
         THEN Thrown(collection, "type-error", E_NoHeaderList)
       ELSE Put([collection EXCEPT !.item = Some(ReplaceAt(ItemsOf(collection), Val(matchedRequest),
                    setAuthHeader(NodeAt(ItemsOf(collection), Val(matchedRequest)),
                                  newAuthValue(capturedRequest.authType,
                                               OrEmpty(capturedRequest.authValue)))))],
                "token-updated",
                Named(NodeAt(ItemsOf(collection), Val(matchedRequest)).name))

updateTokenLocal(collection, capturedRequest) ==
    LET matchedRequest == findMatchingRequest(capturedRequest.url, ItemsOf(collection))
    IN IF ~IsSome(matchedRequest) THEN Thrown(collection, "no-matching-request", E_NoMatch)
       ELSE IF ~CanSetAuth(NodeAt(ItemsOf(collection), Val(matchedRequest)))
         THEN Thrown(collection, "type-error", E_NoHeaderList)
       ELSE Put([collection EXCEPT !.item = Some(ReplaceAt(ItemsOf(collection), Val(matchedRequest),
                    setAuthHeader(NodeAt(ItemsOf(collection), Val(matchedRequest)),
                                  newAuthValue(capturedRequest.authType,
                                               OrEmpty(capturedRequest.authValue)))))],
                "token-updated",
                Named(NodeAt(ItemsOf(collection), Val(matchedRequest)).name))

\* variant: the formatted request is appended whether or not a leaf matches
upsertAlwaysCreates(collection, capturedRequest) ==
    IF ~CanFormat(capturedRequest) THEN Thrown(collection, "invalid-url", E_InvalidUrl)
    ELSE Put([collection EXCEPT !.item =
                 Some(Append(ItemsOf(collection), formatRequestForPostman(capturedRequest)))],
             "created", Named(formatRequestForPostman(capturedRequest).name))

upsertLocal(collection, capturedRequest) ==
    LET existingRequest == findMatchingRequestWithMethod(capturedRequest.url, capturedRequest.method,
                                                         ItemsOf(collection))
    IN IF ~CanFormat(capturedRequest) THEN Thrown(collection, "invalid-url", E_InvalidUrl)
       ELSE IF IsSome(existingRequest)
         THEN Put([collection EXCEPT !.item = Some(ReplaceAt(ItemsOf(collection), Val(existingRequest),
                      [NodeAt(ItemsOf(collection), Val(existingRequest)) EXCEPT
                          !.request = formatRequestForPostman(capturedRequest).request,
                          !.name = formatRequestForPostman(capturedRequest).name]))],
                  "updated", Named(formatRequestForPostman(capturedRequest).name))
         ELSE Put([collection EXCEPT !.item =
                      Some(Append(ItemsOf(collection), formatRequestForPostman(capturedRequest)))],
                  "created", Named(formatRequestForPostman(capturedRequest).name))

\* the loop of updateTokenForHost over the matches found before it started
RECURSIVE setAuthAll(_, _, _, _)
setAuthAll(items, paths, k, value) ==
    IF k > Len(paths) THEN items
    ELSE setAuthAll(ReplaceAt(items, paths[k], setAuthHeader(NodeAt(items, paths[k]), value)),
                    paths, k + 1, value)

\* variant: with no leaf of the host the document is written back as it is
updateHostLocalWritesAnyway(collection, host, authValue, authType) ==
    LET matchingRequests == findAllRequestsForHost(host, ItemsOf(collection))
    IN IF \E k \in 1..Len(matchingRequests) :
                  ~CanSetAuth(NodeAt(ItemsOf(collection), matchingRequests[k]))
         THEN Thrown(collection, "type-error", E_NoHeaderList)
       ELSE Put([collection EXCEPT !.item =
                    Some(setAuthAll(ItemsOf(collection), matchingRequests, 1,
                                    newAuthValue(authType, authValue)))],
                "bulk-updated",
                [NoResult EXCEPT !.updatedCount = Len(matchingRequests),
                                 !.totalMatched = Len(matchingRequests)])

updateHostLocal(collection, host, authValue, authType) ==
    LET matchingRequests == findAllRequestsForHost(host, ItemsOf(collection))
        updatedNames == [k \in 1..Len(matchingRequests) |->
                            NodeAt(ItemsOf(collection), matchingRequests[k]).name]
    IN IF Len(matchingRequests) = 0
         THEN Thrown(collection, "no-requests-for-host", E_NoRequestsForHost(host))
       ELSE IF \E k \in 1..Len(matchingRequests) :
                  ~CanSetAuth(NodeAt(ItemsOf(collection), matchingRequests[k]))
         THEN Thrown(collection, "type-error", E_NoHeaderList)
       ELSE Put([collection EXCEPT !.item =
                    Some(setAuthAll(ItemsOf(collection), matchingRequests, 1,
                                    newAuthValue(authType, authValue)))],
                "bulk-updated",
                [NoResult EXCEPT !.updatedCount = Len(matchingRequests),
                                 !.totalMatched = Len(matchingRequests),
                                 !.requestNames = updatedNames])

(***************************************************************************)
(* hist records what happened, for stating the claims; no action reads it  *)
(* except to bound the behaviours:                                         *)
(*   events, cmds, stops  numbers of pre-send events and of commands       *)
(*   epoch                number of START_CAPTURE commands so far          *)
(*   armed, host, collection  the session the last start/stop command left *)
(*   captured             requests for host recorded since that start      *)
(*   synced               upserts of those requests that returned since    *)
(*   atStop               those counts when the last STOP_CAPTURE ran      *)
(*   cleared              ids whose pre-send event a clear() has followed  *)
(*   authSeen             hosts a request with an auth type was recorded of*)
(*   sinceClear           requests recorded since the last clear()         *)
(*   fetched              per invocation, the document its fetch returned  *)
(*   applied              the invocations whose write the service applied, *)
(*                        in the order it applied them, each with the      *)
(*                        invocations that then held a document of the     *)
(*                        same collection, fetched and not yet written     *)
(*                                                                         *)
(* Initial state: the module variables as requestCapture.ts initialises    *)
(* them; the stored key and the remote documents are whatever earlier runs *)
(* and other clients left.                                                 *)
(***************************************************************************)
L_A1 ==
    [name |-> <<"o","n","e">>, item |-> None,
     request |-> Some([method |-> Some(<<"g","e","t">>),
                       header |-> Some(<<[key |-> S_authorization, value |-> <<"o","l","d">>]>>),
                       url |-> Some([kind |-> "string",
                                     raw |-> U_A1,
                                     protocol |-> <<>>, host |-> <<>>, path |-> <<>>, query |-> <<>>]),
                       body |-> None, auth |-> None])]
D_Empty == [item |-> None]
D_Folder == [item |-> Some(<<[name |-> <<"f">>, item |-> Some(<<L_A1>>), request |-> None]>>)]
InitialRemote == [c \in Collections |-> IF c = "c1" THEN D_Folder ELSE D_Empty]

Hist0 ==
    [events |-> 0, cmds |-> 0, stops |-> 0, epoch |-> 0, armed |-> FALSE, host |-> None,
     collection |-> None, captured |-> 0, synced |-> 0, atStop |-> None,
     cleared |-> {}, authSeen |-> {}, sinceClear |-> 0,
     fetched |-> EmptyMap, applied |-> <<>>]

\* keys: the keys storage may hold; docs: the documents the service holds
\* no pure function is being called
NoProbe == [fn |-> "none"]

InitState(keys, docs, calls) ==
    /\ capturedRequests = <<>>
    /\ requestBodies = EmptyMap
    /\ hostMap = EmptyMap
    /\ captureState = IdleState
    /\ onCaptureCallback = None
    /\ now = 0
    /\ nextId = 1
    /\ inflight = [id \in ReqIds |-> None]
    /\ tasks = <<>>
    /\ finalState = None
    /\ apiKey \in keys
    /\ remote = docs
    /\ messages = <<>>
    /\ probe \in calls
    /\ hist = Hist0

InitWith(keys, docs) == InitState(keys, docs, {NoProbe})

Init == InitWith({None, Some("key")}, InitialRemote)

(***************************************************************************)
(* An orchestrator invocation.  pc is where it is suspended:               *)
(*   "key"     in getApiHeaders of the operation (storage read)            *)
(*   "key2"    in getApiHeaders of getCollection (storage read)            *)
(*   "fetch"   GET /collections/{id} sent, response awaited                *)
(*   "write"   PUT /collections/{id} sent, not yet applied by the service  *)
(*   "written" PUT applied by the service, response awaited                *)
(*   "done" / "failed"  returned / thrown                                  *)
(* status is the HTTP status of the response that failed it (0: none),     *)
(* error the message of the Error it threw, result what it returned.       *)
(***************************************************************************)
NewTask(op, auto, collectionId, request, host, authValue, authType) ==
    [op |-> op, auto |-> auto, session |-> IF auto THEN hist.epoch ELSE 0,
     collectionId |-> collectionId, request |-> request, host |-> host,
     authValue |-> authValue, authType |-> authType,
     pc |-> "key", doc |-> None, fetches |-> 0, writes |-> 0, tag |-> "pending",
     status |-> 0, error |-> "", result |-> NoResult]

\* variant: the callback returns only once the fetch has been sent
autoSyncAwaited(collectionId, request) ==
    [NewTask("upsert", TRUE, collectionId, Some(request), None, <<>>, "none")
        EXCEPT !.pc = "fetch", !.fetches = 1]

\* the callback handleStartCapture passes to startCapture, up to its first await
autoSyncCallback(collectionId, request) ==
    NewTask("upsert", TRUE, collectionId, Some(request), None, <<>>, "none")

(***************************************************************************)
(* requestCapture.ts: the two webRequest listeners                         *)
(***************************************************************************)
\* Listener 1, onBeforeRequest: the pre-send event of transaction tx with id
OnBeforeRequest(id, tx) ==
    /\ ~IsSome(inflight[id])
    /\ inflight' = [inflight EXCEPT ![id] = Some(tx)]
    /\ requestBodies' =
         IF shouldCaptureRequest(tx.url) /\ isApiType(tx.type) /\ IsSome(tx.requestBody)
         THEN MapSet(requestBodies, id, Val(tx.requestBody))
         ELSE requestBodies
    /\ hist' = [hist EXCEPT !.events = @ + 1, !.cleared = @ \ {id}]
    /\ UNCHANGED <<capturedRequests, hostMap, captureState, onCaptureCallback,
                   now, nextId, probe, tasks, finalState, apiKey, remote, messages>>

\* (details.requestHeaders || []).map(h => ({key: h.name, value: h.value || ''}))
convertHeaders(requestHeaders) ==
    LET hs == OrEmpty(requestHeaders)
    IN [k \in 1..Len(hs) |-> [key |-> hs[k].name, value |-> OrEmpty(hs[k].value)]]

\* the CapturedRequest the listener builds at time t
buildCapturedRequest(id, tx, hev, t) ==
    [id |-> nextId,
     timestamp |-> t,
     method |-> hev.method,
     url |-> tx.url,
     headers |-> convertHeaders(hev.requestHeaders),
     body |-> formatRequestBody(MapGet(requestBodies, id)),
     authType |-> detectAuthType(convertHeaders(hev.requestHeaders)).type,
     authValue |-> detectAuthType(convertHeaders(hev.requestHeaders)).value]

\* variant: the cap is tested with >= and the buffer stops at 99
unshiftOffByOne(requests, r) ==
    IF Len(requests) + 1 >= MAX_REQUESTS
    THEN SubSeq(<<r>> \o requests, 1, Len(requests))
    ELSE <<r>> \o requests

\* capturedRequests.unshift(r); if (length > MAX_REQUESTS) pop()
unshiftBounded(requests, r) ==
    IF Len(requests) + 1 > MAX_REQUESTS
    THEN SubSeq(<<r>> \o requests, 1, Len(requests))
    ELSE <<r>> \o requests

\* variant: the count starts again at 1 with every request
trackHostRestarts(map, host, r, t) ==
    MapSet(map, host,
           [host |-> host,
            requestCount |-> 1,
            lastSeen |-> t,
            hasAuth |-> (host \in DOMAIN map /\ map[host].hasAuth) \/ r.authType /= "none"])

\* variant: hasAuth follows the latest request instead of being sticky
trackHostLatestAuth(map, host, r, t) ==
    MapSet(map, host,
           [host |-> host,
            requestCount |-> (IF host \in DOMAIN map THEN map[host].requestCount ELSE 0) + 1,
            lastSeen |-> t,
            hasAuth |-> r.authType /= "none"])

\* hostMap.set(host, {...}) of the listener
trackHost(map, host, r, t) ==
    MapSet(map, host,
           [host |-> host,
            requestCount |-> (IF host \in DOMAIN map THEN map[host].requestCount ELSE 0) + 1,
            lastSeen |-> t,
            hasAuth |-> (host \in DOMAIN map /\ map[host].hasAuth) \/ r.authType /= "none"])

\* variant: the target host is not compared
captureTriggersAnyHost(host) ==
    /\ captureState.isCapturing
    /\ IsSome(onCaptureCallback)

\* the test that guards the callback
captureTriggers(host) ==
    /\ captureState.isCapturing
    /\ captureState.targetHost = Some(host)
    /\ IsSome(onCaptureCallback)

\* Listener 2, onBeforeSendHeaders: the headers-ready event of the transaction
\* in flight with id; t is the value Date.now() has reached
OnBeforeSendHeaders(id, hev, t) ==
    /\ IsSome(inflight[id])
    /\ t >= now
    /\ UNCHANGED probe
    /\ LET tx == Val(inflight[id])
           r == buildCapturedRequest(id, tx, hev, t)
           host == UrlHost(r.url)
       IN IF ~(shouldCaptureRequest(tx.url) /\ isApiType(tx.type))
          THEN /\ hist' = [hist EXCEPT !.cleared = @ \ {id}]
               /\ UNCHANGED <<capturedRequests, requestBodies, hostMap, captureState,
                              nextId, tasks, now>>
          ELSE /\ now' = t
               /\ nextId' = nextId + 1
               /\ requestBodies' = MapDelete(requestBodies, id)
               /\ capturedRequests' = unshiftBounded(capturedRequests, r)
               /\ IF UrlParses(r.url)
                  THEN /\ hostMap' = trackHost(hostMap, host, r, t)
                       /\ IF captureTriggers(host)
                          THEN /\ captureState' = [captureState EXCEPT !.capturedCount = @ + 1]
                               /\ tasks' = Append(tasks, autoSyncCallback(Val(onCaptureCallback), r))
                          ELSE UNCHANGED <<captureState, tasks>>
                  ELSE UNCHANGED <<hostMap, captureState, tasks>>
               /\ hist' = [hist EXCEPT
                     !.cleared = @ \ {id},
                     !.sinceClear = @ + 1,
                     !.captured = IF hist.armed /\ UrlParses(r.url) /\ hist.host = Some(host)
                                  THEN @ + 1 ELSE @,
                     !.authSeen = IF UrlParses(r.url) /\ r.authType /= "none"
                                  THEN @ \cup {host} ELSE @]
    /\ inflight' = [inflight EXCEPT ![id] = None]
    /\ UNCHANGED <<onCaptureCallback, finalState, apiKey, remote, messages>>

\* variant: the pending bodies are kept
clearKeepsBodies ==
    /\ capturedRequests' = <<>>
    /\ UNCHANGED requestBodies
    /\ hist' = [hist EXCEPT !.cmds = @ + 1, !.sinceClear = 0,
                            !.cleared = {id \in ReqIds : IsSome(inflight[id])}]
    /\ UNCHANGED <<hostMap, captureState, onCaptureCallback, now, nextId, probe, inflight,
                   tasks, finalState, apiKey, remote, messages>>

clearCapturedRequests ==
    /\ capturedRequests' = <<>>
    /\ requestBodies' = EmptyMap
    /\ hist' = [hist EXCEPT !.cmds = @ + 1, !.sinceClear = 0,
                            !.cleared = {id \in ReqIds : IsSome(inflight[id])}]
    /\ UNCHANGED <<hostMap, captureState, onCaptureCallback, now, nextId, probe, inflight,
                   tasks, finalState, apiKey, remote, messages>>

(***************************************************************************)
(* index.ts: the message listener.  A message received is kept as          *)
(* [type, payload, task, responses, response]: payload optional, task the  *)
(* orchestrator invocation its handler awaits (0: none), responses the     *)
(* number of sendResponse calls made for it, response the last             *)
(* MessageResponse sent.                                                   *)
(***************************************************************************)
Success == [success |-> TRUE, error |-> ""]
Failure(error) == [success |-> FALSE, error |-> error]

\* the handler called sendResponse before it returned
Answered(type, payload, response) ==
    [type |-> type, payload |-> payload, task |-> 0, responses |-> 1,
     response |-> Some(response)]
\* the handler is suspended at its await of invocation i
Awaiting(type, payload, i) ==
    [type |-> type, payload |-> payload, task |-> i, responses |-> 0, response |-> None]

\* payload of SAVE_TO_POSTMAN and of UPDATE_TOKEN
RequestPayload(requestId, collectionId) ==
    Some([requestId |-> requestId, collectionId |-> collectionId])

E_RequestNotFound == "Request not found. It may have been cleared from the capture list."
E_NoAuthRequest(host) == "No authenticated requests found for host \"" \o Join(host) \o "\""
E_UnknownType(type) == "Unknown message type: " \o type

\* variant: the handler has no catch, so a thrown failure is never answered
sendTaskResponseNoCatch(i, task) ==
    [k \in 1..Len(messages) |->
        IF messages[k].task = i /\ task.pc = "done"
        THEN [messages[k] EXCEPT !.responses = @ + 1, !.response = Some(Success)]
        ELSE messages[k]]

\* the handler resumes when invocation i has returned or thrown (task is
\* the invocation after the step) and calls sendResponse
sendTaskResponse(i, task) ==
    [k \in 1..Len(messages) |->
        IF messages[k].task = i /\ task.pc \in {"done", "failed"}
        THEN [messages[k] EXCEPT
                 !.responses = @ + 1,
                 !.response = Some(IF task.pc = "done" THEN Success ELSE Failure(task.error))]
        ELSE messages[k]]

(***************************************************************************)
(* START_CAPTURE and STOP_CAPTURE                                          *)
(***************************************************************************)
\* variant: a callback already installed is kept
startCaptureKeepsCallback(host, collectionId, callback) ==
    /\ captureState' = [isCapturing |-> TRUE, targetHost |-> Some(host),
                        collectionId |-> Some(collectionId),
                        capturedCount |-> 0, syncedCount |-> 0]
    /\ onCaptureCallback' = IF IsSome(onCaptureCallback) THEN onCaptureCallback ELSE Some(callback)

startCapture(host, collectionId, callback) ==
    /\ captureState' = [isCapturing |-> TRUE, targetHost |-> Some(host),
                        collectionId |-> Some(collectionId),
                        capturedCount |-> 0, syncedCount |-> 0]
    /\ onCaptureCallback' = Some(callback)

\* the callback is the closure over payload.collectionId
handleStartCapture(host, collectionId) ==
    /\ startCapture(host, collectionId, collectionId)
    /\ hist' = [hist EXCEPT !.epoch = @ + 1, !.armed = TRUE,
                            !.host = Some(host), !.collection = Some(collectionId),
                            !.captured = 0, !.synced = 0]
    /\ messages' = Append(messages, Answered("START_CAPTURE",
                                           Some([host |-> host, collectionId |-> collectionId]),
                                           Success))
    /\ UNCHANGED <<capturedRequests, requestBodies, hostMap, now, nextId, probe, inflight,
                   tasks, finalState, apiKey, remote>>

\* variant: the snapshot is returned but the session is left armed
stopCaptureStaysArmed ==
    /\ finalState' = Some(captureState)
    /\ UNCHANGED <<captureState, onCaptureCallback>>

stopCapture ==
    /\ finalState' = Some(captureState)
    /\ captureState' = IdleState
    /\ onCaptureCallback' = None

handleStopCapture ==
    /\ stopCapture
    /\ hist' = [hist EXCEPT !.stops = @ + 1, !.armed = FALSE,
                            !.atStop = Some([captured |-> hist.captured, synced |-> hist.synced,
                                             wasArmed |-> hist.armed, host |-> hist.host,
                                             nextId |-> nextId])]
    /\ messages' = Append(messages, Answered("STOP_CAPTURE", None, Success))
    /\ UNCHANGED <<capturedRequests, requestBodies, hostMap, now, nextId, probe, inflight,
                   tasks, apiKey, remote>>

(***************************************************************************)
(* Buffer accessors                                                        *)
(***************************************************************************)
\* variant: the id is taken as a position in the buffer
getCapturedRequestAt(id) ==
    IF id \in 1..Len(capturedRequests) THEN Some(capturedRequests[id]) ELSE None

\* capturedRequests.find(req => req.id === id)
getCapturedRequest(id) ==
    LET S == {k \in 1..Len(capturedRequests) : capturedRequests[k].id = id}
    IN IF S = {} THEN None ELSE Some(capturedRequests[Min(S)])

IsForHost(req, host) == \E urlObj \in {ParseUrl(req.url)} : urlObj.ok /\ urlObj.host = host
getRequestsByHost(host) == SelectSeq(capturedRequests, LAMBDA req : IsForHost(req, host))

\* variant: the oldest request with authentication is taken
getOldestRequestWithAuth(host) ==
    LET hostRequests == getRequestsByHost(host)
        S == {k \in 1..Len(hostRequests) : hostRequests[k].authType /= "none"}
    IN IF S = {} THEN None ELSE Some(hostRequests[Max(S)])

getMostRecentRequestWithAuth(host) ==
    LET hostRequests == getRequestsByHost(host)
        S == {k \in 1..Len(hostRequests) : hostRequests[k].authType /= "none"}
    IN IF S = {} THEN None ELSE Some(hostRequests[Min(S)])

(***************************************************************************)
(* index.ts: the commands that start an orchestrator operation.  When the  *)
(* handler answers without calling the operation, no task is started.      *)
(***************************************************************************)
handleSaveToPostman(requestId, collectionId) ==
    /\ tasks' = IF IsSome(getCapturedRequest(requestId))
                THEN Append(tasks, NewTask("create", FALSE, collectionId,
                                           getCapturedRequest(requestId), None, <<>>, "none"))
                ELSE tasks
    /\ messages' = Append(messages,
                          IF IsSome(getCapturedRequest(requestId))
                          THEN Awaiting("SAVE_TO_POSTMAN", RequestPayload(requestId, collectionId),
                                        Len(tasks) + 1)
                          ELSE Answered("SAVE_TO_POSTMAN", RequestPayload(requestId, collectionId),
                                        Failure(E_RequestNotFound)))
    /\ hist' = [hist EXCEPT !.cmds = @ + 1]
    /\ UNCHANGED <<capturedRequests, requestBodies, hostMap, captureState, onCaptureCallback,
                   now, nextId, probe, inflight, finalState, apiKey, remote>>

handleUpdateToken(requestId, collectionId) ==
    /\ tasks' = IF IsSome(getCapturedRequest(requestId))
                THEN Append(tasks, NewTask("update", FALSE, collectionId,
                                           getCapturedRequest(requestId), None, <<>>, "none"))
                ELSE tasks
    /\ messages' = Append(messages,
                          IF IsSome(getCapturedRequest(requestId))
                          THEN Awaiting("UPDATE_TOKEN", RequestPayload(requestId, collectionId),
                                        Len(tasks) + 1)
                          ELSE Answered("UPDATE_TOKEN", RequestPayload(requestId, collectionId),
                                        Failure(E_RequestNotFound)))
    /\ hist' = [hist EXCEPT !.cmds = @ + 1]
    /\ UNCHANGED <<capturedRequests, requestBodies, hostMap, captureState, onCaptureCallback,
                   now, nextId, probe, inflight, finalState, apiKey, remote>>

handleUpdateHostToken(host, collectionId) ==
    /\ tasks' = IF IsSome(getMostRecentRequestWithAuth(host))
                THEN LET authRequest == Val(getMostRecentRequestWithAuth(host))
                     IN Append(tasks, NewTask("bulk", FALSE, collectionId, None, Some(host),
                                              OrEmpty(authRequest.authValue), authRequest.authType))
                ELSE tasks
    /\ messages' = Append(messages,
                          IF IsSome(getMostRecentRequestWithAuth(host))
                          THEN Awaiting("UPDATE_HOST_TOKEN",
                                        Some([host |-> host, collectionId |-> collectionId]),
                                        Len(tasks) + 1)
                          ELSE Answered("UPDATE_HOST_TOKEN",
                                        Some([host |-> host, collectionId |-> collectionId]),
                                        Failure(E_NoAuthRequest(host))))
    /\ hist' = [hist EXCEPT !.cmds = @ + 1]
    /\ UNCHANGED <<capturedRequests, requestBodies, hostMap, captureState, onCaptureCallback,
                   now, nextId, probe, inflight, finalState, apiKey, remote>>

handleSaveApiKey(key) ==
    /\ apiKey' = Some(key)
    /\ messages' = Append(messages, Answered("SAVE_API_KEY", Some([apiKey |-> key]), Success))
    /\ hist' = [hist EXCEPT !.cmds = @ + 1]
    /\ UNCHANGED <<capturedRequests, requestBodies, hostMap, captureState, onCaptureCallback,
                   now, nextId, probe, inflight, tasks, finalState, remote>>

\* the handlers that only read the capture store
ReadFrame == <<capturedRequests, requestBodies, hostMap, captureState, onCaptureCallback,
               now, nextId, probe, inflight, finalState, apiKey, remote>>

handleGetRequests ==
    /\ messages' = Append(messages, Answered("GET_REQUESTS", None, Success))
    /\ hist' = [hist EXCEPT !.cmds = @ + 1]
    /\ UNCHANGED <<ReadFrame, tasks>>

handleGetHosts ==
    /\ messages' = Append(messages, Answered("GET_HOSTS", None, Success))
    /\ hist' = [hist EXCEPT !.cmds = @ + 1]
    /\ UNCHANGED <<ReadFrame, tasks>>

handleGetCaptureState ==
    /\ messages' = Append(messages, Answered("GET_CAPTURE_STATE", None, Success))
    /\ hist' = [hist EXCEPT !.cmds = @ + 1]
    /\ UNCHANGED <<ReadFrame, tasks>>

\* a call of getCollections() or testConnection(apiKey), up to its first await
NewQuery(op, pc) ==
    [NewTask(op, FALSE, "", None, None, <<>>, "none") EXCEPT !.pc = pc]

\* handleGetCollections: getCollections() starts with await getApiHeaders()
handleGetCollections ==
    /\ tasks' = Append(tasks, NewQuery("list", "qkey"))
    /\ messages' = Append(messages, Awaiting("GET_COLLECTIONS", None, Len(tasks) + 1))
    /\ hist' = [hist EXCEPT !.cmds = @ + 1]
    /\ UNCHANGED ReadFrame

\* handleTestConnection: testConnection(payload.apiKey) issues GET /me with the
\* key of the payload, not with the stored one
handleTestConnection(key) ==
    /\ tasks' = Append(tasks, NewQuery("me", "get"))
    /\ messages' = Append(messages, Awaiting("TEST_CONNECTION", Some([apiKey |-> key]),
                                             Len(tasks) + 1))
    /\ hist' = [hist EXCEPT !.cmds = @ + 1]
    /\ UNCHANGED ReadFrame

\* the switch's default branch
handleUnknown(type) ==
    /\ messages' = Append(messages, Answered(type, None, Failure(E_UnknownType(type))))
    /\ hist' = [hist EXCEPT !.cmds = @ + 1]
    /\ UNCHANGED <<ReadFrame, tasks>>

\* the types whose handler reads a field of message.payload, and the first
\* field it reads
PayloadField(type) ==
    CASE type \in {"SAVE_TO_POSTMAN", "UPDATE_TOKEN"} -> "requestId"
      [] type \in {"TEST_CONNECTION", "SAVE_API_KEY"} -> "apiKey"
      [] type \in {"START_CAPTURE", "UPDATE_HOST_TOKEN"} -> "host"
PayloadTypes == {"SAVE_TO_POSTMAN", "UPDATE_TOKEN", "TEST_CONNECTION", "SAVE_API_KEY",
                 "START_CAPTURE", "UPDATE_HOST_TOKEN"}

\* message of the TypeError of reading a field of undefined
E_NoPayload(type) ==
    "Cannot read properties of undefined (reading '" \o PayloadField(type) \o "')"

\* a message of one of these types without a payload: payload.<field> throws
\* inside the handler's try, before anything is called, and its catch answers
handleWithoutPayload(type) ==
    /\ type \in PayloadTypes
    /\ messages' = Append(messages, Answered(type, None, Failure(E_NoPayload(type))))
    /\ hist' = [hist EXCEPT !.cmds = @ + 1]
    /\ UNCHANGED <<ReadFrame, tasks>>

(***************************************************************************)
(* postmanApi.ts: the steps of an orchestrator invocation                  *)
(***************************************************************************)
\* getApiHeaders: throws when getPostmanApiKey gives null or an empty key
HasApiKey == IsSome(apiKey) /\ Val(apiKey) /= ""

TaskFrame == <<capturedRequests, requestBodies, hostMap, onCaptureCallback,
               now, nextId, probe, inflight, finalState, apiKey>>

\* variant: the operation goes on to getCollection without testing the key
TaskGetApiHeadersUnchecked(i) ==
    /\ tasks[i].pc = "key"
    /\ tasks' = [tasks EXCEPT ![i].pc = "key2"]
    /\ messages' = sendTaskResponse(i, tasks'[i])
    /\ UNCHANGED <<TaskFrame, captureState, remote, hist>>

\* const headers = await getApiHeaders()
TaskGetApiHeaders(i) ==
    /\ tasks[i].pc = "key"
    /\ tasks' = IF HasApiKey
                THEN [tasks EXCEPT ![i].pc = "key2"]
                ELSE [tasks EXCEPT ![i].pc = "failed", ![i].tag = "credential-missing",
                                   ![i].error = E_NoApiKey]
    /\ messages' = sendTaskResponse(i, tasks'[i])
    /\ UNCHANGED <<TaskFrame, captureState, remote, hist>>

\* getCollection: its own getApiHeaders, then axios.get is issued
TaskGetCollection(i) ==
    /\ tasks[i].pc = "key2"
    /\ tasks' = IF HasApiKey
                THEN [tasks EXCEPT ![i].pc = "fetch", ![i].fetches = @ + 1]
                ELSE [tasks EXCEPT ![i].pc = "failed", ![i].tag = "credential-missing",
                                   ![i].error = E_NoApiKey]
    /\ messages' = sendTaskResponse(i, tasks'[i])
    /\ UNCHANGED <<TaskFrame, captureState, remote, hist>>

\* the operation's code between the fetch and the write, on the fetched document
operationLocal(task, collection) ==
    CASE task.op = "create" -> createLocal(collection, Val(task.request))
      [] task.op = "update" -> updateTokenLocal(collection, Val(task.request))
      [] task.op = "upsert" -> upsertLocal(collection, Val(task.request))
      [] task.op = "bulk" -> updateHostLocal(collection, Val(task.host), task.authValue, task.authType)

\* the GET is answered with the document; the operation runs up to its axios.put
TaskFetchOk(i) ==
    /\ tasks[i].pc = "fetch"
    /\ LET res == operationLocal(tasks[i], remote[tasks[i].collectionId])
       IN tasks' = IF res.ok
                   THEN [tasks EXCEPT ![i].pc = "write", ![i].doc = Some(res.doc),
                                      ![i].writes = @ + 1, ![i].tag = res.tag,
                                      ![i].result = res.result]
                   ELSE [tasks EXCEPT ![i].pc = "failed", ![i].tag = res.tag,
                                      ![i].error = res.error]
    /\ messages' = sendTaskResponse(i, tasks'[i])
    /\ hist' = [hist EXCEPT !.fetched = [k \in (DOMAIN @) \cup {i} |->
                                            IF k = i THEN remote[tasks[i].collectionId] ELSE @[k]]]
    /\ UNCHANGED <<TaskFrame, captureState, remote>>

(***************************************************************************)
(* A remote call that fails: resp is the response axios attaches to its    *)
(* error, [status, statusText], or None when no response arrived.          *)
(***************************************************************************)
\* error.message of the AxiosError
axiosMessage(resp) ==
    IF IsSome(resp) THEN "Request failed with status code " \o ToString(Val(resp).status)
    ELSE "Network Error"
\* error.response?.statusText || error.message
statusTextOrMessage(resp) ==
    IF IsSome(resp) /\ Val(resp).statusText /= "" THEN Val(resp).statusText
    ELSE axiosMessage(resp)
\* error.response?.status, 0 standing for undefined
statusOf(resp) == IF IsSome(resp) THEN Val(resp).status ELSE 0

\* the prefix each operation's catch puts before the status text
FailurePrefix(op) ==
    CASE op = "create" -> "Failed to create request: "
      [] op = "update" -> "Failed to update token: "
      [] op = "upsert" -> "Failed to upsert request: "
      [] op = "bulk" -> "Failed to update tokens: "

\* variant: a failed GET is tried again
TaskFetchFailRetries(i, resp) ==
    /\ tasks[i].pc = "fetch"
    /\ tasks' = [tasks EXCEPT ![i].pc = "key2"]
    /\ UNCHANGED <<capturedRequests, requestBodies, hostMap, onCaptureCallback,
                   now, nextId, probe, inflight, finalState, apiKey, captureState, remote,
                   messages, hist>>

\* the GET fails: getCollection throws, and the operation's catch passes it on
TaskFetchFail(i, resp) ==
    /\ tasks[i].pc = "fetch"
    /\ tasks' = [tasks EXCEPT ![i].pc = "failed", ![i].tag = "fetch-failed",
                              ![i].status = statusOf(resp),
                              ![i].error = "Failed to fetch collection: " \o statusTextOrMessage(resp)]
    /\ messages' = sendTaskResponse(i, tasks'[i])
    /\ UNCHANGED <<TaskFrame, captureState, remote, hist>>

\* the invocations that hold a fetched document of the collection of i and
\* have not had their own write applied
HoldingWith(i) ==
    {k \in 1..Len(tasks) : /\ k /= i
                           /\ tasks[k].pc = "write"
                           /\ tasks[k].collectionId = tasks[i].collectionId}

\* variant: the service appends the last node of the document it is sent to
\* the document it holds
TaskWriteApplyMerges(i) ==
    /\ tasks[i].pc = "write"
    /\ LET sent == ItemsOf(Val(tasks[i].doc))
           held == ItemsOf(remote[tasks[i].collectionId])
       IN remote' = [remote EXCEPT ![tasks[i].collectionId] =
                        IF held = <<>> \/ sent = <<>> THEN Val(tasks[i].doc)
                        ELSE [item |-> Some(Append(held, sent[Len(sent)]))]]
    /\ tasks' = [tasks EXCEPT ![i].pc = "written"]
    /\ hist' = [hist EXCEPT !.applied = Append(@, [task |-> i, holding |-> HoldingWith(i)])]
    /\ UNCHANGED <<capturedRequests, requestBodies, hostMap, onCaptureCallback,
                   now, nextId, probe, inflight, finalState, apiKey, captureState, messages>>

\* the service applies the PUT: the document is replaced wholesale
TaskWriteApply(i) ==
    /\ tasks[i].pc = "write"
    /\ remote' = [remote EXCEPT ![tasks[i].collectionId] = Val(tasks[i].doc)]
    /\ tasks' = [tasks EXCEPT ![i].pc = "written"]
    /\ hist' = [hist EXCEPT !.applied = Append(@, [task |-> i, holding |-> HoldingWith(i)])]
    /\ UNCHANGED <<TaskFrame, captureState, messages>>

\* variant: a failed automatic upsert is counted as synced all the same
TaskWriteFailCounted(i, resp) ==
    /\ tasks[i].pc \in {"write", "written"}
    /\ tasks' = [tasks EXCEPT ![i].pc = "failed", ![i].tag = "write-failed",
                              ![i].status = statusOf(resp),
                              ![i].error = FailurePrefix(tasks[i].op) \o statusTextOrMessage(resp)]
    /\ captureState' = IF tasks[i].auto
                       THEN [captureState EXCEPT !.syncedCount = @ + 1] ELSE captureState
    /\ messages' = sendTaskResponse(i, tasks'[i])
    /\ UNCHANGED <<capturedRequests, requestBodies, hostMap, onCaptureCallback,
                   now, nextId, probe, inflight, finalState, apiKey, remote, hist>>

\* the PUT fails: rejected by the service, or its response is lost
TaskWriteFail(i, resp) ==
    /\ tasks[i].pc \in {"write", "written"}
    /\ tasks' = [tasks EXCEPT ![i].pc = "failed", ![i].tag = "write-failed",
                              ![i].status = statusOf(resp),
                              ![i].error = FailurePrefix(tasks[i].op) \o statusTextOrMessage(resp)]
    /\ messages' = sendTaskResponse(i, tasks'[i])
    /\ UNCHANGED <<TaskFrame, captureState, remote, hist>>

incrementSyncedCount == [captureState EXCEPT !.syncedCount = @ + 1]

\* the PUT is answered: the operation returns; the capture callback then
\* runs incrementSyncedCount()
TaskWriteOk(i) ==
    /\ tasks[i].pc = "written"
    /\ tasks' = [tasks EXCEPT ![i].pc = "done"]
    /\ captureState' = IF tasks[i].auto THEN incrementSyncedCount ELSE captureState
    /\ messages' = sendTaskResponse(i, tasks'[i])
    /\ hist' = [hist EXCEPT !.synced = IF tasks[i].auto /\ hist.armed /\ tasks[i].session = hist.epoch
                                       THEN @ + 1 ELSE @]
    /\ UNCHANGED <<TaskFrame, remote>>

(***************************************************************************)
(* postmanApi.ts: getCollections and testConnection                        *)
(***************************************************************************)
E_InvalidKeyCheck == "Invalid API key. Please check your Postman API key."
E_InvalidKeyReconfigure == "Invalid API key. Please reconfigure in Settings."

\* the prefix the catch of the query puts before the status text
QueryPrefix(op) ==
    CASE op = "me" -> "API Error: "
      [] op = "list" -> "Failed to fetch collections: "

\* the error of the 401 branch of the query's catch
QueryInvalidKey(op) ==
    CASE op = "me" -> E_InvalidKeyCheck
      [] op = "list" -> E_InvalidKeyReconfigure

\* getCollections: const headers = await getApiHeaders(), then axios.get
QueryGetApiHeaders(i) ==
    /\ tasks[i].pc = "qkey"
    /\ tasks' = IF HasApiKey
                THEN [tasks EXCEPT ![i].pc = "get"]
                ELSE [tasks EXCEPT ![i].pc = "failed", ![i].tag = "credential-missing",
                                   ![i].error = E_NoApiKey]
    /\ messages' = sendTaskResponse(i, tasks'[i])
    /\ UNCHANGED <<TaskFrame, captureState, remote, hist>>

\* GET /me or GET /collections is answered 2xx
QueryOk(i) ==
    /\ tasks[i].pc = "get"
    /\ tasks' = [tasks EXCEPT ![i].pc = "done", ![i].tag = "answered"]
    /\ messages' = sendTaskResponse(i, tasks'[i])
    /\ UNCHANGED <<TaskFrame, captureState, remote, hist>>

\* GET /me or GET /collections fails with resp
QueryFail(i, resp) ==
    /\ tasks[i].pc = "get"
    /\ tasks' = [tasks EXCEPT
                   ![i].pc = "failed",
                   ![i].tag = IF statusOf(resp) = 401 THEN "credential-invalid"
                              ELSE "remote-failed",
                   ![i].status = statusOf(resp),
                   ![i].error = IF statusOf(resp) = 401 THEN QueryInvalidKey(tasks[i].op)
                                ELSE QueryPrefix(tasks[i].op) \o statusTextOrMessage(resp)]
    /\ messages' = sendTaskResponse(i, tasks'[i])
    /\ UNCHANGED <<TaskFrame, captureState, remote, hist>>

(***************************************************************************)
(* Specifications.  Every specification starts from Init and takes the     *)
(* actions above; they differ in the events the environment delivers and   *)
(* in how many of them a behaviour holds.                                  *)
(***************************************************************************)
Times == {t \in now..(now + 1) : t <= MaxTime}
RequestIdsSeen == 0..(nextId - 1)
CanStartTask == Len(tasks) < MaxTasks
CanCommand == hist.cmds < MaxCommands
CanStart == hist.epoch < MaxStarts
CanStop == hist.stops < MaxStops

PreSend(ids, txs, max) ==
    \E id \in ids, tx \in txs : hist.events < max /\ OnBeforeRequest(id, tx)
HeadersReady(ids, hevs, times) ==
    \E id \in ids, hev \in hevs, t \in times :
        /\ CanStartTask \/ ~captureState.isCapturing
        /\ OnBeforeSendHeaders(id, hev, t)

\* failures: the ways a remote call of the behaviour may fail
R_401 == Some([status |-> 401, statusText |-> "Unauthorized"])
R_500 == Some([status |-> 500, statusText |-> "Internal Server Error"])
R_503 == Some([status |-> 503, statusText |-> ""])
R_None == None

TaskStep(failures) ==
    \E i \in 1..Len(tasks) :
        \/ TaskGetApiHeaders(i)
        \/ TaskGetCollection(i)
        \/ \E resp \in failures : TaskFetchFail(i, resp)
        \/ TaskFetchOk(i)
        \/ TaskWriteApply(i)
        \/ \E resp \in failures : TaskWriteFail(i, resp)
        \/ TaskWriteOk(i)

\* Spec: live capture sessions with their automatic upserts
SessionTransactions ==
    { [url |-> U_A42, type |-> "xmlhttprequest", requestBody |-> None],
      [url |-> U_B, type |-> "fetch", requestBody |-> None],
      [url |-> U_NoUrl, type |-> "xmlhttprequest", requestBody |-> None] }
SessionHeaderEvents ==
    { [method |-> M_GET, requestHeaders |-> HL_None],
      [method |-> M_GET, requestHeaders |-> HL_Bearer] }

Next ==
    \/ PreSend({"r1"}, SessionTransactions, MaxEvents)
    \/ HeadersReady({"r1"}, SessionHeaderEvents, {now + 1})
    \/ \E h \in Hosts, c \in Collections : CanStart /\ handleStartCapture(h, c)
    \/ CanStop /\ handleStopCapture
    \/ TaskStep({R_500})

Spec == Init /\ [][Next]_vars

\* SpecCapture: transactions with bodies overlap, and clear() runs among them
CaptureTransactions ==
    { [url |-> U_A42, type |-> "xmlhttprequest", requestBody |-> None],
      [url |-> U_A7, type |-> "fetch", requestBody |-> B_Text],
      [url |-> U_B, type |-> "xmlhttprequest", requestBody |-> B_Json],
      [url |-> U_NoUrl, type |-> "fetch", requestBody |-> B_Form],
      [url |-> U_Png, type |-> "xmlhttprequest", requestBody |-> B_File],
      [url |-> U_A42, type |-> "image", requestBody |-> B_Text] }
CaptureHeaderEvents ==
    { [method |-> M_GET, requestHeaders |-> HL_None],
      [method |-> M_POST, requestHeaders |-> HL_Bearer] }

NextCapture ==
    \/ PreSend(ReqIds, CaptureTransactions, MaxEvents)
    \/ HeadersReady(ReqIds, CaptureHeaderEvents, Times)
    \/ hist.cmds < MaxClears /\ clearCapturedRequests

SpecCapture == Init /\ [][NextCapture]_vars

\* SpecOps: the four orchestrator operations, started by commands and by capture
OpsTransactions ==
    { [url |-> U_A42, type |-> "xmlhttprequest", requestBody |-> None],
      [url |-> U_NoUrl, type |-> "fetch", requestBody |-> None] }
OpsHeaderEvents == { [method |-> M_GET, requestHeaders |-> HL_Bearer] }

NextOps ==
    \/ PreSend({"r1"}, OpsTransactions, MaxEvents)
    \/ HeadersReady({"r1"}, OpsHeaderEvents, {now + 1})
    \/ \E c \in Collections : hist.epoch < 1 /\ handleStartCapture(H_A, c)
    \/ \E id \in RequestIdsSeen, c \in Collections :
          CanCommand /\ CanStartTask /\ handleSaveToPostman(id, c)
    \/ \E id \in RequestIdsSeen, c \in Collections :
          CanCommand /\ CanStartTask /\ handleUpdateToken(id, c)
    \/ \E h \in Hosts, c \in Collections :
          CanCommand /\ CanStartTask /\ handleUpdateHostToken(h, c)
    \/ \E k \in {"", "key"} : CanCommand /\ handleSaveApiKey(k)
    \/ TaskStep({R_500})

SpecOps == Init /\ [][NextOps]_vars

\* SpecBuffer: one transaction after the other fills the buffer past its cap
BufferTransactions == { [url |-> U_B, type |-> "fetch", requestBody |-> None] }
BufferHeaderEvents == { [method |-> M_GET, requestHeaders |-> HL_None] }

NextBuffer ==
    \/ PreSend({"r1"}, BufferTransactions, MaxRecords)
    \/ HeadersReady({"r1"}, BufferHeaderEvents, {now + 1})
    \/ hist.cmds < MaxClears /\ clearCapturedRequests

SpecBuffer == Init /\ [][NextBuffer]_vars

\* SpecSync: the four operations on documents with folders, several leaves
\* of one pattern and of one host, and credentials of several types
S_old == <<"o","l","d">>
HL_Basic == Some(<<[name |-> S_authorization, value |-> Some(<<"B","a","s","i","c"," ","p","w">>)]>>)
L_A2 ==
    [name |-> <<"t","w","o">>, item |-> None,
     request |-> Some([method |-> Some(M_POST),
                       header |-> Some(<<[key |-> <<"a","c","c","e","p","t">>, value |-> <<"x">>]>>),
                       url |-> Some([kind |-> "object",
                                     raw |-> U_A2,
                                     protocol |-> <<"h","t","t","p","s">>, host |-> <<<<"a">>, <<"i","o">>>>,
                                     path |-> <<<<"u">>, <<"2">>>>, query |-> <<>>]),
                       body |-> None, auth |-> None])]
L_B ==
    [name |-> <<"b","e","e">>, item |-> None,
     request |-> Some([method |-> None,
                       header |-> Some(<<[key |-> <<"a","c","c","e","p","t">>, value |-> <<"x">>],
                                         [key |-> toUpperCase(S_authorization), value |-> S_old],
                                         [key |-> S_authorization, value |-> S_old]>>),
                       url |-> Some([kind |-> "string", raw |-> U_B,
                                     protocol |-> <<>>, host |-> <<>>, path |-> <<>>, query |-> <<>>]),
                       body |-> None, auth |-> None])]
L_NoUrl ==
    [name |-> <<"n","o">>, item |-> None,
     request |-> Some([method |-> Some(M_GET), header |-> None, url |-> None,
                       body |-> None, auth |-> None])]
D_Tree ==
    [item |-> Some(<<[name |-> <<"f">>,
                      item |-> Some(<<L_A1, [name |-> <<"g">>, item |-> Some(<<L_B>>), request |-> None]>>),
                      request |-> None],
                     L_A2, L_NoUrl>>)]
L_V ==
    [name |-> <<"v","e","e">>, item |-> None,
     request |-> Some([method |-> Some(M_GET),
                       header |-> Some(<<[key |-> <<"a","c","c","e","p","t">>, value |-> <<"x">>]>>),
                       url |-> Some([kind |-> "string", raw |-> U_B,
                                     protocol |-> <<>>, host |-> <<>>, path |-> <<>>, query |-> <<>>]),
                       body |-> None, auth |-> None])]
D_OnlyB == [item |-> Some(<<L_V>>)]
SyncRemote == [c \in Collections |-> IF c = "c1" THEN D_Tree ELSE D_OnlyB]

InitSync == InitWith({Some("key")}, SyncRemote)

SyncTransactions ==
    { [url |-> U_A42, type |-> "xmlhttprequest", requestBody |-> None],
      [url |-> U_B, type |-> "fetch", requestBody |-> None] }
SyncHeaderEvents ==
    { [method |-> M_GET, requestHeaders |-> HL_Bearer],
      [method |-> M_POST, requestHeaders |-> HL_Basic] }

NextSync ==
    \/ PreSend({"r1"}, SyncTransactions, MaxSyncEvents)
    \/ HeadersReady({"r1"}, SyncHeaderEvents, {now + 1})
    \/ \E h \in Hosts : hist.epoch < 1 /\ handleStartCapture(h, "c1")
    \/ \E id \in RequestIdsSeen, c \in Collections :
          CanCommand /\ CanStartTask /\ handleSaveToPostman(id, c)
    \/ \E id \in RequestIdsSeen, c \in Collections :
          CanCommand /\ CanStartTask /\ handleUpdateToken(id, c)
    \/ \E h \in Hosts, c \in Collections :
          CanCommand /\ CanStartTask /\ handleUpdateHostToken(h, c)
    \/ TaskStep({R_500})

SpecSync == InitSync /\ [][NextSync]_vars

\* the command surface: every message type, with and without payload, and
\* every way a remote call may fail
Failures == {R_401, R_500, R_503, R_None}
MessageTransactions == { [url |-> U_A42, type |-> "xmlhttprequest", requestBody |-> None] }
MessageHeaderEvents == { [method |-> M_GET, requestHeaders |-> HL_Bearer] }
CanReceive == Len(messages) < MaxMessages

QueryStep(failures) ==
    \E i \in 1..Len(tasks) :
        \/ QueryGetApiHeaders(i)
        \/ QueryOk(i)
        \/ \E resp \in failures : QueryFail(i, resp)

Receive ==
    \/ handleGetRequests
    \/ \E id \in RequestIdsSeen : CanStartTask /\ handleSaveToPostman(id, "c1")
    \/ \E id \in RequestIdsSeen : CanStartTask /\ handleUpdateToken(id, "c1")
    \/ CanStartTask /\ handleGetCollections
    \/ CanStartTask /\ handleTestConnection("key")
    \/ handleSaveApiKey("key")
    \/ handleGetHosts
    \/ handleStartCapture(H_A, "c1")
    \/ handleStopCapture
    \/ handleGetCaptureState
    \/ CanStartTask /\ handleUpdateHostToken(H_A, "c1")
    \/ handleUnknown("PING")
    \/ \E type \in PayloadTypes : handleWithoutPayload(type)

NextMessages ==
    \/ PreSend({"r1"}, MessageTransactions, MaxSyncEvents)
    \/ HeadersReady({"r1"}, MessageHeaderEvents, {now + 1})
    \/ CanReceive /\ Receive
    \/ TaskStep(Failures)
    \/ QueryStep(Failures)

\* every remote call and every storage read completes or fails, and the
\* continuation that awaits it is then run
MessageFairness ==
    /\ WF_vars(TaskStep(Failures))
    /\ WF_vars(QueryStep(Failures))

SpecMessages == Init /\ [][NextMessages]_vars /\ MessageFairness

\* the buffer at its capacity: commands name the oldest id, the newest id and
\* the id not yet assigned, once MAX_REQUESTS transactions have started
EvictIds == {1, nextId - 1, nextId}
Late == hist.events >= MAX_REQUESTS

NextEvict ==
    \/ PreSend({"r1"}, BufferTransactions, MaxEvictEvents)
    \/ HeadersReady({"r1"}, BufferHeaderEvents, {now + 1})
    \/ Late /\ hist.cmds < MaxClears /\ clearCapturedRequests
    \/ \E id \in EvictIds :
          Late /\ CanCommand /\ CanStartTask /\ handleSaveToPostman(id, "c2")
    \/ \E id \in EvictIds :
          Late /\ CanCommand /\ CanStartTask /\ handleUpdateToken(id, "c2")
    \/ TaskStep({R_500})

SpecEvict == Init /\ [][NextEvict]_vars

\* SpecArmed: a session armed for a.io, events that are not admitted (a static
\* asset of a.io, a request of type image to a.io, a browser-internal URL)
\* among admitted ones, and clear()
ArmedTransactions ==
    { [url |-> U_A42, type |-> "xmlhttprequest", requestBody |-> B_Text],
      [url |-> U_Png, type |-> "fetch", requestBody |-> B_Text],
      [url |-> U_A42, type |-> "image", requestBody |-> B_Text],
      [url |-> U_Chrome, type |-> "xmlhttprequest", requestBody |-> B_Text] }
ArmedHeaderEvents == { [method |-> M_POST, requestHeaders |-> HL_Bearer] }

NextArmed ==
    \/ PreSend({"r1"}, ArmedTransactions, MaxEvents)
    \/ HeadersReady({"r1"}, ArmedHeaderEvents, {now + 1})
    \/ hist.epoch < 1 /\ handleStartCapture(H_A, "c1")
    \/ CanStop /\ handleStopCapture
    \/ hist.cmds < MaxClears /\ clearCapturedRequests
    \/ TaskStep({R_500})

InitArmed == InitWith({Some("key")}, InitialRemote)

SpecArmed == InitArmed /\ [][NextArmed]_vars

\* SpecRotate: requests of two hosts with bearer, basic and no credentials in
\* the buffer, and UPDATE_HOST_TOKEN for either host
RotateTransactions ==
    { [url |-> U_A42, type |-> "xmlhttprequest", requestBody |-> None],
      [url |-> U_A7, type |-> "fetch", requestBody |-> None],
      [url |-> U_B, type |-> "fetch", requestBody |-> None] }
RotateHeaderEvents ==
    { [method |-> M_GET, requestHeaders |-> hs] : hs \in {HL_Bearer, HL_Basic, HL_None} }

NextRotate ==
    \/ PreSend({"r1"}, RotateTransactions, MaxEvents)
    \/ HeadersReady({"r1"}, RotateHeaderEvents, {now + 1})
    \/ \E h \in Hosts : CanCommand /\ CanStartTask /\ handleUpdateHostToken(h, "c1")
    \/ TaskStep({R_500})

SpecRotate == InitSync /\ [][NextRotate]_vars

\* SpecAuto: one armed session for a.io whose requests, of two methods, are
\* recorded while the upserts of earlier ones are in flight; nothing else
\* writes the collections
AutoTransactions ==
    { [url |-> U_A42, type |-> "xmlhttprequest", requestBody |-> None],
      [url |-> U_A7, type |-> "fetch", requestBody |-> None] }
AutoHeaderEvents ==
    { [method |-> M_GET, requestHeaders |-> HL_Bearer],
      [method |-> M_POST, requestHeaders |-> HL_Bearer] }

NextAuto ==
    \/ PreSend({"r1"}, AutoTransactions, MaxEvents)
    \/ HeadersReady({"r1"}, AutoHeaderEvents, {now + 1})
    \/ \E c \in Collections : hist.epoch < 1 /\ handleStartCapture(H_A, c)
    \/ TaskStep({R_500})

SpecAuto == InitArmed /\ [][NextAuto]_vars

\* SpecToken: update-by-match of buffered requests with and without credential
TokenTransactions ==
    { [url |-> U_A42, type |-> "xmlhttprequest", requestBody |-> None],
      [url |-> U_B, type |-> "fetch", requestBody |-> None] }
TokenHeaderEvents ==
    { [method |-> M_GET, requestHeaders |-> hs] : hs \in {HL_None, HL_NoValue, HL_Bearer} }

NextToken ==
    \/ PreSend({"r1"}, TokenTransactions, MaxEvents)
    \/ HeadersReady({"r1"}, TokenHeaderEvents, {now + 1})
    \/ \E id \in RequestIdsSeen, c \in Collections :
          CanCommand /\ CanStartTask /\ handleUpdateToken(id, c)
    \/ TaskStep({R_500})

SpecToken == InitSync /\ [][NextToken]_vars

(***************************************************************************)
(* The pure functions, called on their own: probe holds the function, its  *)
(* arguments and the results of the calls made so far.                     *)
(***************************************************************************)
PureFrame == <<capturedRequests, requestBodies, hostMap, captureState, onCaptureCallback,
               now, nextId, inflight, tasks, finalState, apiKey, remote, messages, hist>>


NormalizeCalls == {[fn |-> "normalizeUrl", url |-> u, results |-> <<>>] : u \in UrlInputs}

\* normalizeUrl(url), then normalizeUrl of what it returned
CallNormalizeUrl ==
    /\ probe.fn = "normalizeUrl"
    /\ Len(probe.results) < 2
    /\ probe' = [probe EXCEPT !.results =
                    Append(@, normalizeUrl(IF @ = <<>> THEN probe.url ELSE @[Len(@)]))]
    /\ UNCHANGED PureFrame

H_BearerAbc == [key |-> <<"A","u","t","h","o","r","i","z","a","t","i","o","n">>, value |-> <<"B","e","a","r","e","r"," ","a","b","c","1","2","3">>]
H_BasicPw == [key |-> <<"a","u","t","h","o","r","i","z","a","t","i","o","n">>, value |-> <<"B","a","s","i","c"," ","p","w">>]
H_Digest == [key |-> <<"A","u","t","h","o","r","i","z","a","t","i","o","n">>, value |-> <<"D","i","g","e","s","t"," ","x">>]
H_XApiKey == [key |-> <<"X","-","A","p","i","-","K","e","y">>, value |-> <<"k">>]
H_TenantApikey == [key |-> <<"T","e","n","a","n","t","-","A","p","i","K","e","y","-","I","d">>, value |-> <<"z">>]
H_SessionCookie == [key |-> <<"C","o","o","k","i","e">>, value |-> <<"a","=","1",";"," ","S","e","s","s","i","o","n","I","d","=","9">>]
H_ThemeCookie == [key |-> <<"c","o","o","k","i","e">>, value |-> <<"t","h","e","m","e","=","d","a","r","k">>]
H_Accept == [key |-> <<"A","c","c","e","p","t">>, value |-> <<"*","/","*">>]
HeaderInputs == {H_BearerAbc, H_BasicPw, H_Digest, H_XApiKey, H_TenantApikey,
                 H_SessionCookie, H_ThemeCookie, H_Accept}
\* the lists of at most three different headers, in every order
HeaderLists ==
    {<<>>} \cup {<<a>> : a \in HeaderInputs}
           \cup {hs \in HeaderInputs \X HeaderInputs : hs[1] # hs[2]}
           \cup {hs \in HeaderInputs \X HeaderInputs \X HeaderInputs :
                     hs[1] # hs[2] /\ hs[1] # hs[3] /\ hs[2] # hs[3]}
DetectCalls == {[fn |-> "detectAuthType", headers |-> hs, results |-> <<>>] : hs \in HeaderLists}

CallDetectAuthType ==
    /\ probe.fn = "detectAuthType"
    /\ probe.results = <<>>
    /\ probe' = [probe EXCEPT !.results = <<detectAuthType(probe.headers)>>]
    /\ UNCHANGED PureFrame

\* a leaf of a collection document
Leaf(name, method, url) ==
    [name |-> name, item |-> None,
     request |-> Some([method |-> method, header |-> None, url |-> url,
                       body |-> None, auth |-> None])]
StringUrl(raw) ==
    Some([kind |-> "string", raw |-> raw,
          protocol |-> <<>>, host |-> <<>>, path |-> <<>>, query |-> <<>>])
Folder(name, children) == [name |-> name, item |-> Some(children), request |-> None]

H_Api == <<"a","p","i",".","x",".","c","o","m">>
H_Other == <<"o","t","h","e","r",".","i","o",":","8","4","4","3">>
M_post == <<"p","o","s","t">>
M_PUT == <<"P","U","T">>

T_Get42 == Leaf(<<"a">>, Some(M_GET), StringUrl(U_Items42))
T_Post7 == Leaf(<<"b">>, Some(M_post), StringUrl(U_Items7))
T_Other99 == Leaf(<<"c">>, None, StringUrl(U_Other99))
T_Oid == Leaf(<<"d">>, Some(M_GET), StringUrl(U_Oid1))
T_NoUrl == Leaf(<<"e">>, Some(M_GET), None)
T_Variable == Leaf(<<"g">>, Some(M_GET), StringUrl(U_Variable))
T_Users == Leaf(<<"h">>, Some(M_PUT), StringUrl(U_UpperUsers))
CoreLeaves == {T_Get42, T_Post7, T_NoUrl}
LeafInputs == CoreLeaves \cup {T_Other99, T_Oid, T_Variable, T_Users}
\* nodes: a leaf, a folder of at most one leaf, a folder of a folder and a leaf
NodeInputs ==
    LeafInputs
        \cup {Folder(<<"f">>, <<>>)}
        \cup {Folder(<<"f">>, <<a>>) : a \in LeafInputs}
        \cup {Folder(<<"f">>, <<Folder(<<"k">>, <<a>>), b>>) : a \in CoreLeaves, b \in CoreLeaves}
TreeInputs ==
    {<<>>} \cup {<<a>> : a \in NodeInputs} \cup {<<a, b>> : a \in NodeInputs, b \in NodeInputs}
CapturedInputs == {O_Api \o P_Items99, O_Api \o P_Oid2}
MethodInputs == {M_GET, M_POST, M_PUT}
HostInputs == {H_Api, H_Other}
Finders == {"findMatchingRequest", "findMatchingRequestWithMethod",
            "findAllMatchingRequests", "findAllRequestsForHost"}
SearchCalls ==
    {[fn |-> f, capturedUrl |-> u, method |-> m, host |-> h, items |-> t, results |-> <<>>] :
        f \in Finders, u \in CapturedInputs, m \in MethodInputs, h \in HostInputs,
        t \in TreeInputs}

CallFindMatchingRequest ==
    /\ probe.fn = "findMatchingRequest"
    /\ probe.results = <<>>
    /\ probe' = [probe EXCEPT !.results =
                    <<findMatchingRequest(probe.capturedUrl, probe.items)>>]
    /\ UNCHANGED PureFrame

CallFindMatchingRequestWithMethod ==
    /\ probe.fn = "findMatchingRequestWithMethod"
    /\ probe.results = <<>>
    /\ probe' = [probe EXCEPT !.results =
                    <<findMatchingRequestWithMethod(probe.capturedUrl, probe.method,
                                                    probe.items)>>]
    /\ UNCHANGED PureFrame

CallFindAllMatchingRequests ==
    /\ probe.fn = "findAllMatchingRequests"
    /\ probe.results = <<>>
    /\ probe' = [probe EXCEPT !.results =
                    <<findAllMatchingRequests(probe.capturedUrl, probe.items)>>]
    /\ UNCHANGED PureFrame

CallFindAllRequestsForHost ==
    /\ probe.fn = "findAllRequestsForHost"
    /\ probe.results = <<>>
    /\ probe' = [probe EXCEPT !.results =
                    <<findAllRequestsForHost(probe.host, probe.items)>>]
    /\ UNCHANGED PureFrame

InitPure ==
    InitState({Some("key")}, InitialRemote, NormalizeCalls \cup DetectCalls \cup SearchCalls)

NextPure ==
    \/ CallNormalizeUrl
    \/ CallDetectAuthType
    \/ CallFindMatchingRequest
    \/ CallFindMatchingRequestWithMethod
    \/ CallFindAllMatchingRequests
    \/ CallFindAllRequestsForHost

SpecPure == InitPure /\ [][NextPure]_vars

(***************************************************************************)
(* Claims                                                                  *)
(***************************************************************************)
\* a step in which a listener recorded a request: the new request is the head
RecordStep == nextId' = nextId + 1
Recorded == capturedRequests'[1]

\* C1: the buffer never holds more than 100 requests; after n admitted
\* requests recorded since the last clear() it holds exactly min(n, 100),
\* they are the most recently recorded ones, newest first, and every record
\* inserts its request at the head.
C1_BufferBound ==
    LET n == hist.sinceClear
        m == IF n < 100 THEN n ELSE 100
    IN /\ Len(capturedRequests) <= 100
       /\ Len(capturedRequests) = m
       /\ \A k \in 1..m : capturedRequests[k].id = nextId - k

\* 150 requests were recorded in a row: the oldest 50 are gone
C1_Witness ==
    /\ hist.sinceClear = 150
    /\ Len(capturedRequests) = 100
    /\ capturedRequests[100].id = 51

\* the session the commands have armed, as the environment knows it
ArmedFor(r) == hist.armed /\ UrlParses(r.url) /\ hist.host = Some(UrlHost(r.url))
Running(task) == task.pc \in {"key", "key2", "fetch", "write", "written"}
Finished(task) == task.pc \in {"done", "failed"}

\* C2: while a session is armed for host H and collection C, a recorded
\* request of host H adds exactly 1 to capturedCount and starts exactly one
\* upsert of that request against C; a recorded request of another host, or
\* with an unparseable URL, is buffered, leaves the session counters as they
\* were and starts no upsert.
C2_Step ==
    (RecordStep /\ hist.armed) =>
        /\ Recorded.id = nextId
        /\ IF ArmedFor(Recorded)
           THEN /\ captureState' = [captureState EXCEPT !.capturedCount = @ + 1]
                /\ Len(tasks') = Len(tasks) + 1
                /\ SubSeq(tasks', 1, Len(tasks)) = tasks
                /\ LET task == tasks'[Len(tasks')]
                   IN /\ task.op = "upsert"
                      /\ task.request = Some(Recorded)
                      /\ Some(task.collectionId) = hist.collection
                      /\ Running(task)
           ELSE /\ captureState' = captureState
                /\ tasks' = tasks
C2_RecordInSession == [][C2_Step]_vars

\* an armed session has counted one request of its host and started its
\* upsert, and has buffered a request of another host without counting it
C2_Witness ==
    /\ hist.armed
    /\ captureState.capturedCount = 1
    /\ Len(tasks) = 1
    /\ Len(capturedRequests) = 2
    /\ \E k \in 1..2 : ~ArmedFor(capturedRequests[k])

\* C3: the snapshot stopCapture returns has capturedCount equal to the number
\* of requests of the target host recorded between the matching startCapture
\* and the stop, and syncedCount equal to the number of those requests whose
\* upsert had returned successfully by then.
C3_SnapshotCounts ==
    (IsSome(finalState) /\ IsSome(hist.atStop) /\ Val(hist.atStop).wasArmed) =>
        /\ Val(finalState).capturedCount = Val(hist.atStop).captured
        /\ Val(finalState).syncedCount = Val(hist.atStop).synced

\* C4: from a stopCapture to the next startCapture no recorded request starts
\* an upsert or adds to capturedCount, whatever its host; and the snapshot
\* the stop returned is changed by no later event (only by the next stop).
C4_Step ==
    /\ (RecordStep /\ ~hist.armed) =>
          /\ Len(tasks') = Len(tasks)
          /\ captureState'.capturedCount = captureState.capturedCount
    /\ (hist'.stops = hist.stops) => finalState' = finalState
C4_AfterStop == [][C4_Step]_vars

\* after a stop, a request of the host the stopped session targeted was recorded
C4_Witness ==
    /\ IsSome(hist.atStop)
    /\ Val(hist.atStop).wasArmed
    /\ ~hist.armed
    /\ capturedRequests /= <<>>
    /\ capturedRequests[1].id >= Val(hist.atStop).nextId
    /\ UrlParses(capturedRequests[1].url)
    /\ Some(UrlHost(capturedRequests[1].url)) = Val(hist.atStop).host
    /\ Val(finalState).capturedCount = 1

\* C5: when an automatic upsert fails, the step changes nothing of the capture
\* state (buffer, pending bodies, host aggregates, session state with both
\* counters); syncedCount is incremented only in the step in which an
\* automatic upsert whose write the service applied returns.
C5_Step ==
    /\ (\E i \in 1..Len(tasks) : tasks[i].auto /\ Running(tasks[i]) /\ tasks'[i].pc = "failed") =>
          UNCHANGED <<capturedRequests, requestBodies, hostMap, captureState, onCaptureCallback>>
    /\ (captureState'.syncedCount > captureState.syncedCount) =>
          /\ captureState'.syncedCount = captureState.syncedCount + 1
          /\ \E i \in 1..Len(tasks) :
                /\ tasks[i].auto /\ tasks[i].op = "upsert"
                /\ tasks[i].pc = "written" /\ tasks'[i].pc = "done"
                /\ tasks[i].writes = 1
C5_FailureIsolated == [][C5_Step]_vars

\* automatic upserts have failed for a missing key, at the fetch and at the
\* write, and a request was recorded after a failure
C5_Witness ==
    /\ \E i \in 1..Len(tasks) : tasks[i].auto /\ tasks[i].pc = "failed"
                                  /\ tasks[i].tag = "write-failed"
    /\ \E i \in 1..Len(tasks) : tasks[i].auto /\ tasks[i].pc = "failed"
                                  /\ tasks[i].tag \in {"fetch-failed", "credential-missing"}
    /\ captureState.capturedCount = 2
    /\ captureState.syncedCount = 0

\* C6: recording never waits for remote I/O.  The step that starts an
\* automatic upsert is the record step itself: in it the request is put at
\* the head of the buffer, its host aggregate and capturedCount are updated,
\* the listener is through with the transaction, and the upsert has issued
\* no remote request yet.  Whatever the upserts in flight are doing, the
\* listeners accept the next pre-send or headers-ready event.
C6_Step ==
    (Len(tasks') = Len(tasks) + 1 /\ tasks'[Len(tasks')].auto) =>
        LET task == tasks'[Len(tasks')]
            r == Val(task.request)
            host == UrlHost(r.url)
        IN /\ RecordStep
           /\ Recorded = r
           /\ host \in DOMAIN hostMap'
           /\ hostMap'[host].requestCount =
                 (IF host \in DOMAIN hostMap THEN hostMap[host].requestCount ELSE 0) + 1
           /\ captureState'.capturedCount = captureState.capturedCount + 1
           /\ \A id \in ReqIds : IsSome(inflight[id]) /\ Val(inflight[id]).url = r.url
                                    => ~IsSome(inflight'[id])
           /\ task.pc = "key" /\ task.fetches = 0 /\ task.writes = 0
           /\ remote' = remote
C6_Ready ==
    (\E i \in 1..Len(tasks) : tasks[i].auto /\ tasks[i].pc \in {"fetch", "write", "written"}) =>
    \A id \in {"r1"} :
        IF IsSome(inflight[id])
        THEN ENABLED (\E hev \in SessionHeaderEvents : OnBeforeSendHeaders(id, hev, now + 1))
        ELSE ENABLED (\E tx \in SessionTransactions : OnBeforeRequest(id, tx))
C6_RecordDoesNotWait == []C6_Ready /\ [][C6_Step]_vars

\* two automatic upserts are in flight at once, each awaiting a remote answer
C6_Witness ==
    /\ Len(tasks) = 2
    /\ \A i \in 1..2 : tasks[i].auto /\ tasks[i].pc \in {"fetch", "write", "written"}
    /\ Len(capturedRequests) = 2

\* C7: the session targets at most one (host, collection) pair.
\* startCapture(h2, c2), also when a session for (h1, c1) is armed, makes the
\* session (h2, c2) with both counters 0; while a session is armed its state
\* and its callback are those of the last start; a record starts an upsert
\* only for a request of that host, and against that collection.
C7_Step ==
    /\ (hist'.epoch = hist.epoch + 1) =>
          /\ captureState' = [isCapturing |-> TRUE, targetHost |-> hist'.host,
                              collectionId |-> hist'.collection,
                              capturedCount |-> 0, syncedCount |-> 0]
          /\ onCaptureCallback' = hist'.collection
    /\ (RecordStep /\ Len(tasks') > Len(tasks)) =>
          /\ ArmedFor(Recorded)
          /\ Len(tasks') = Len(tasks) + 1
          /\ Some(tasks'[Len(tasks')].collectionId) = hist.collection
    /\ (RecordStep /\ ArmedFor(Recorded)) => Len(tasks') = Len(tasks) + 1
C7_Inv ==
    hist.armed =>
        /\ captureState.isCapturing
        /\ captureState.targetHost = hist.host
        /\ captureState.collectionId = hist.collection
        /\ onCaptureCallback = hist.collection
C7_OneTarget == []C7_Inv /\ [][C7_Step]_vars

\* a session for (h1, c1) was replaced, while armed, by one for (h2, c2), and
\* a request of h2 recorded after that is upserted against c2
C7_Witness ==
    /\ hist.epoch = 2 /\ hist.stops = 0
    /\ Len(tasks) = 2
    /\ tasks[1].session = 1 /\ tasks[2].session = 2
    /\ tasks[1].collectionId /= tasks[2].collectionId
    /\ UrlHost(Val(tasks[1].request).url) /= UrlHost(Val(tasks[2].request).url)
    /\ Some(tasks[2].collectionId) = captureState.collectionId

\* C8: however the pre-send and headers-ready events of several transactions
\* interleave, the request the headers-ready event with transport id X
\* finalizes carries the (decoded) body the pre-send event with id X
\* delivered, none when that event delivered none, and right after it the
\* pending-body table has no entry for X.  (A clear() between the two events
\* of X drops the pending body: that case is outside this claim.)
C8_Step ==
    \A id \in ReqIds :
        (IsSome(inflight[id]) /\ ~IsSome(inflight'[id])) =>
            /\ id \notin DOMAIN requestBodies'
            /\ (RecordStep /\ id \notin hist.cleared) =>
                  /\ Recorded.url = Val(inflight[id]).url
                  /\ Recorded.body = formatRequestBody(Val(inflight[id]).requestBody)
C8_BodyJoin == [][C8_Step]_vars

\* two transactions overlapped: the one whose pre-send event came second was
\* finalized first, and each recorded request has its own body
C8_Witness ==
    /\ Len(capturedRequests) = 2
    /\ capturedRequests[2].url = U_B /\ capturedRequests[2].body = formatRequestBody(B_Json)
    /\ capturedRequests[1].url = U_A7 /\ capturedRequests[1].body = formatRequestBody(B_Text)
    /\ capturedRequests[1].timestamp = capturedRequests[2].timestamp
    /\ hist.cmds = 0
    /\ \A id \in ReqIds : ~IsSome(inflight[id])

\* C9: the aggregate of every host is monotone.  No step removes an
\* aggregate, lowers its requestCount or its lastSeen, or turns its hasAuth
\* off; a recorded request whose URL parses to host h adds exactly 1 to the
\* requestCount of h and no other step changes it; and hasAuth of h is true
\* exactly when a request with an auth type other than none was recorded for h.
C9_Step ==
    /\ \A h \in DOMAIN hostMap :
          /\ h \in DOMAIN hostMap'
          /\ hostMap'[h].requestCount >= hostMap[h].requestCount
          /\ hostMap'[h].lastSeen >= hostMap[h].lastSeen
          /\ hostMap[h].hasAuth => hostMap'[h].hasAuth
    /\ \A h \in DOMAIN hostMap' :
          hostMap'[h].requestCount =
             (IF h \in DOMAIN hostMap THEN hostMap[h].requestCount ELSE 0)
             + (IF RecordStep /\ UrlParses(Recorded.url) /\ UrlHost(Recorded.url) = h THEN 1 ELSE 0)
    /\ (RecordStep /\ UrlParses(Recorded.url)) => UrlHost(Recorded.url) \in DOMAIN hostMap'
C9_Inv ==
    /\ hist.authSeen \subseteq DOMAIN hostMap
    /\ \A h \in DOMAIN hostMap : hostMap[h].hasAuth <=> h \in hist.authSeen
C9_HostAggregate == []C9_Inv /\ [][C9_Step]_vars

\* a host was seen with a credential and then, after a clear(), without one
C9_Witness ==
    /\ H_A \in DOMAIN hostMap /\ hostMap[H_A].requestCount = 2 /\ hostMap[H_A].hasAuth
    /\ capturedRequests /= <<>> /\ capturedRequests[1].authType = "none"
    /\ UrlHost(capturedRequests[1].url) = H_A
    /\ hist.sinceClear = 1

\* C10 as claimed: every invocation of create, update-by-match, upsert and
\* bulk host rotation issues exactly one remote fetch and at most one remote
\* write, the write only after the fetch was answered.
C10_ExactlyOneFetch ==
    \A i \in 1..Len(tasks) :
        /\ tasks[i].fetches <= 1 /\ tasks[i].writes <= 1
        /\ tasks[i].writes = 1 => (tasks[i].fetches = 1 /\ IsSome(tasks[i].doc))
        /\ Finished(tasks[i]) => tasks[i].fetches = 1

\* C10, amended: every invocation issues at most one remote fetch and at most
\* one remote write; it issues exactly one fetch unless it fails for a
\* missing API key, and then it issues no remote request at all; the write is
\* issued in the step in which the fetch is answered; and an invocation that
\* has failed or returned issues nothing more (nothing is retried).
C10_Inv ==
    \A i \in 1..Len(tasks) :
        /\ tasks[i].fetches <= 1 /\ tasks[i].writes <= 1
        /\ tasks[i].writes = 1 => (tasks[i].fetches = 1 /\ IsSome(tasks[i].doc))
        /\ Finished(tasks[i]) =>
              \/ tasks[i].fetches = 1
              \/ tasks[i].tag = "credential-missing" /\ tasks[i].fetches = 0 /\ tasks[i].writes = 0
        /\ tasks[i].tag = "credential-missing" => tasks[i].fetches = 0
        /\ tasks[i].pc = "done" => (tasks[i].fetches = 1 /\ tasks[i].writes = 1)
C10_Step ==
    \A i \in 1..Len(tasks) :
        /\ tasks'[i].fetches >= tasks[i].fetches
        /\ tasks'[i].writes >= tasks[i].writes
        /\ tasks'[i].writes > tasks[i].writes => (tasks[i].pc = "fetch" /\ tasks[i].fetches = 1)
        /\ Finished(tasks[i]) => tasks'[i] = tasks[i]
C10_FetchWrite == []C10_Inv /\ [][C10_Step]_vars

\* an upsert failed for a missing key without any remote request, and, the key
\* saved, a bulk rotation fetched once and wrote once
C10_Witness ==
    /\ Len(tasks) = 2
    /\ tasks[1].op = "upsert" /\ tasks[1].pc = "failed"
    /\ tasks[1].tag = "credential-missing" /\ tasks[1].fetches = 0
    /\ tasks[2].op = "bulk" /\ tasks[2].pc = "done"
    /\ tasks[2].fetches = 1 /\ tasks[2].writes = 1

\* the leaves of a tree of nodes in the order the searches visit them
RECURSIVE Leaves(_)
Leaves(items) ==
    IF items = <<>> THEN <<>>
    ELSE (IF IsFolder(items[1]) THEN Leaves(Val(items[1].item)) ELSE <<>>)
         \o (IF IsLeaf(items[1]) THEN <<items[1]>> ELSE <<>>)
         \o Leaves(Tail(items))

\* the response sent for invocation i, None when none was
ResponseTo(i) ==
    LET S == {k \in 1..Len(messages) : messages[k].task = i}
    IN IF S = {} THEN None ELSE messages[Min(S)].response
\* invocation i reported success: it returned, and the handler that awaited
\* it answered {success: true}
ReportedSuccess(i) ==
    /\ tasks[i].pc = "done"
    /\ ~tasks[i].auto => ResponseTo(i) = Some(Success)

\* the write of i was applied while j held a document fetched before it
Raced(i, j) == \E n \in 1..Len(hist.applied) :
                  hist.applied[n].task = i /\ j \in hist.applied[n].holding
\* the invocation whose write of collection c the service applied last
LastWriter(c) ==
    LET S == {n \in 1..Len(hist.applied) : tasks[hist.applied[n].task].collectionId = c}
    IN hist.applied[Max(S)].task

\* C11: when two invocations against one collection both fetch before either
\* writes, both report success, and the document the service holds after
\* both writes is the document written last: what the later writer made of
\* the document it had fetched before the earlier write, so that the earlier
\* writer's document, where it differs, is gone.
C11_Inv ==
    \A i, j \in 1..Len(tasks) :
        (/\ Raced(i, j)
         /\ tasks[i].pc \in {"written", "done"} /\ tasks[j].pc \in {"written", "done"}
         /\ LastWriter(tasks[j].collectionId) = j) =>
            LET c == tasks[j].collectionId
            IN /\ remote[c] = Val(tasks[j].doc)
               /\ remote[c] = operationLocal(tasks[j], hist.fetched[j]).doc
               /\ Val(tasks[i].doc) /= Val(tasks[j].doc) => remote[c] /= Val(tasks[i].doc)
               /\ tasks[i].pc = "done" => ReportedSuccess(i)
               /\ tasks[j].pc = "done" => ReportedSuccess(j)
C11_Step ==
    \A i \in 1..Len(tasks) :
        (tasks[i].pc = "write" /\ tasks'[i].pc = "written") =>
            /\ remote'[tasks[i].collectionId] = Val(tasks[i].doc)
            /\ \A k \in HoldingWith(i) : tasks'[k] = tasks[k]
FetchAnswered(i) == tasks[i].pc = "fetch" /\ tasks'[i].pc = "write"
\* the document invocation i puts
DocOf(task) == ItemsOf(Val(task.doc))
\* invocation j fetched the document invocation i had written
Sequential(i, j) ==
    /\ i /= j
    /\ tasks[i].collectionId = tasks[j].collectionId
    /\ tasks[i].pc \in {"written", "done"}
    /\ tasks[j].pc \in {"write", "written", "done"}
    /\ j \in DOMAIN hist.fetched
    /\ \E n \in 1..Len(hist.applied) : hist.applied[n].task = i /\ j \notin hist.applied[n].holding
    /\ hist.fetched[j] = Val(tasks[i].doc)

\* C12: a create that gets as far as its write puts the fetched document
\* with one node more: the first n top-level nodes are the fetched ones, the
\* last is a leaf named "{METHOD} {path}" of the captured request, whether or
\* not a leaf of the same pattern and method is there already; two creates
\* of one captured request, one after the other, leave two such leaves.
C12_Step ==
    \A i \in 1..Len(tasks) :
        (tasks[i].op = "create" /\ FetchAnswered(i)) =>
            LET old == ItemsOf(remote[tasks[i].collectionId])
                new == DocOf(tasks'[i])
                r == Val(tasks[i].request)
            IN /\ Len(new) = Len(old) + 1
               /\ SubSeq(new, 1, Len(old)) = old
               /\ IsLeaf(new[Len(new)]) /\ ~IsFolder(new[Len(new)])
               /\ new[Len(new)].name = r.method \o <<" ">> \o UrlPathname(r.url)
               /\ Val(new[Len(new)].request).method = Some(r.method)
               /\ extractPostmanUrl(new[Len(new)]) = r.url
               /\ tasks'[i].result.requestName = new[Len(new)].name
C12_Inv ==
    \A i, j \in 1..Len(tasks) :
        (/\ tasks[i].op = "create" /\ tasks[j].op = "create"
         /\ tasks[i].request = tasks[j].request
         /\ Sequential(i, j)) =>
            LET base == ItemsOf(hist.fetched[i])
                n == Len(base)
            IN /\ Len(DocOf(tasks[j])) = n + 2
               /\ SubSeq(DocOf(tasks[j]), 1, n) = base
               /\ DocOf(tasks[j])[n + 1] = DocOf(tasks[j])[n + 2]
               /\ tasks[j].pc \in {"written", "done"} /\ LastWriter(tasks[j].collectionId) = j
                     => ItemsOf(remote[tasks[j].collectionId]) = DocOf(tasks[j])
C12_CreateAppends == []C12_Inv /\ [][C12_Step]_vars

\* GET https://a.io/u/42 was created twice in the tree, which had a GET leaf
\* of the pattern /u/:id: the tree has two new leaves "GET /u/42" at its end
C12_Witness ==
    /\ Len(tasks) = 2
    /\ tasks[1].op = "create" /\ tasks[2].op = "create"
    /\ tasks[1].pc = "done" /\ tasks[2].pc = "done"
    /\ Sequential(1, 2)
    /\ IsSome(findMatchingRequestWithMethod(U_A42, M_GET, ItemsOf(D_Tree)))
    /\ LET items == ItemsOf(remote["c1"])
           n == Len(ItemsOf(D_Tree))
       IN /\ Len(items) = n + 2
          /\ items[n + 1].name = <<"G","E","T"," ","/","u","/","4","2">>
          /\ items[n + 2] = items[n + 1]
          /\ SubSeq(items, 1, n) = ItemsOf(D_Tree)

\* the fetch of invocation i is answered with the document in this step
FetchReturned(i) ==
    tasks[i].pc = "fetch" /\ tasks'[i].pc /= "fetch" /\ tasks'[i].tag /= "fetch-failed"
\* the leaves of the document whose URL has the pattern of url
PatternLeaves(collection, url) ==
    SelectSeq(Leaves(ItemsOf(collection)),
              LAMBDA leaf : CanExtractUrl(leaf)
                            /\ normalizeUrl(extractPostmanUrl(leaf)) = normalizeUrl(url))
\* invocation i never had a write applied
NeverApplied(i) == \A n \in 1..Len(hist.applied) : hist.applied[n].task /= i

\* C13: an update-by-match whose fetch returns a document with no leaf of
\* the pattern of the captured URL throws the no-matching-request error in
\* that step: it issues no write, the document the service holds stays as it
\* is (no leaf is created), and the handler answers with that error.
C13_Step ==
    \A i \in 1..Len(tasks) :
        (/\ tasks[i].op = "update" /\ FetchReturned(i)
         /\ PatternLeaves(remote[tasks[i].collectionId], Val(tasks[i].request).url) = <<>>) =>
            /\ tasks'[i].pc = "failed"
            /\ tasks'[i].tag = "no-matching-request"
            /\ tasks'[i].error = E_NoMatch
            /\ tasks'[i].writes = 0 /\ tasks'[i].doc = None
            /\ remote' = remote
C13_Inv ==
    \A i \in 1..Len(tasks) :
        tasks[i].tag = "no-matching-request" =>
            /\ tasks[i].op = "update" /\ tasks[i].pc = "failed"
            /\ tasks[i].fetches = 1 /\ tasks[i].writes = 0
            /\ NeverApplied(i)
            /\ PatternLeaves(hist.fetched[i], Val(tasks[i].request).url) = <<>>
            /\ ResponseTo(i) = Some(Failure(E_NoMatch))
C13_NoMatchFails == []C13_Inv /\ [][C13_Step]_vars

\* an update-by-match of https://a.io/u/42 against the collection that has
\* only the leaf https://b.io/v failed, and the collection is as it was
C13_Witness ==
    \E i \in 1..Len(tasks) :
        /\ tasks[i].op = "update" /\ tasks[i].collectionId = "c2"
        /\ Val(tasks[i].request).url = U_A42
        /\ tasks[i].pc = "failed" /\ tasks[i].error = E_NoMatch
        /\ remote["c2"] = D_OnlyB
        /\ Len(hist.applied) = 0

\* the tree items with its leaves replaced, in the order of Leaves, by ls
RECURSIVE WithLeaves(_, _)
WithLeaves(items, ls) ==
    IF items = <<>> THEN <<>>
    ELSE LET node == items[1]
             n == IF IsFolder(node) THEN Len(Leaves(Val(node.item))) ELSE 0
             used == n + (IF IsLeaf(node) THEN 1 ELSE 0)
             self == IF IsLeaf(node) THEN ls[n + 1] ELSE node
         IN <<[self EXCEPT !.item = IF IsFolder(node)
                                    THEN Some(WithLeaves(Val(node.item), SubSeq(ls, 1, n)))
                                    ELSE None]>>
            \o WithLeaves(Tail(items), SubSeq(ls, used + 1, Len(ls)))

\* the positions in Leaves of the leaves whose URL has the pattern of url
PatternPositions(leaves, url) ==
    {k \in 1..Len(leaves) : /\ CanExtractUrl(leaves[k])
                            /\ normalizeUrl(extractPostmanUrl(leaves[k])) = normalizeUrl(url)}
\* the positions of the headers named Authorization, whatever the case
AuthorizationPositions(header) ==
    {k \in 1..Len(header) : toLowerCase(header[k].key) = S_authorization}
\* the value the claims give the header: "Bearer " and the token for bearer,
\* the raw credential for every other type
CredentialValue(authType, authValue) ==
    IF authType = "bearer" THEN <<"B","e","a","r","e","r"," ">> \o OrEmpty(authValue)
    ELSE OrEmpty(authValue)
\* new is old with its Authorization header set to value: the first header
\* of that name replaced, or one appended when there is none; the rest as it was
AuthorizationSet(old, new, value) ==
    LET oh == Val(Val(old.request).header)
        nh == Val(Val(new.request).header)
        S == AuthorizationPositions(oh)
    IN /\ new.name = old.name /\ new.item = old.item
       /\ Val(new.request).method = Val(old.request).method
       /\ Val(new.request).url = Val(old.request).url
       /\ Val(new.request).body = Val(old.request).body
       /\ Val(new.request).auth = Val(old.request).auth
       /\ IF S /= {}
          THEN /\ Len(nh) = Len(oh)
               /\ \A k \in 1..Len(oh) :
                     nh[k] = IF k = Min(S) THEN [key |-> oh[k].key, value |-> value] ELSE oh[k]
          ELSE /\ Len(nh) = Len(oh) + 1
               /\ SubSeq(nh, 1, Len(oh)) = oh
               /\ nh[Len(nh)] = [key |-> <<"A","u","t","h","o","r","i","z","a","t","i","o","n">>,
                                 value |-> value]

\* C14: an update-by-match that gets as far as its write puts the fetched
\* document with one change: in the first leaf of the pattern of the
\* captured URL, the first header named Authorization (in any case) has the
\* new value, or an Authorization header with it is appended when the leaf
\* has none.  The value is "Bearer " and the token for bearer, the raw
\* credential for every other type.  The leaf's other headers, method, URL,
\* body and name, every other leaf and every folder are as fetched.
C14_Step ==
    \A i \in 1..Len(tasks) :
        (tasks[i].op = "update" /\ FetchAnswered(i)) =>
            LET old == ItemsOf(remote[tasks[i].collectionId])
                new == DocOf(tasks'[i])
                r == Val(tasks[i].request)
                S == PatternPositions(Leaves(old), r.url)
            IN /\ S /= {}
               /\ Len(Leaves(new)) = Len(Leaves(old))
               /\ WithLeaves(new, Leaves(old)) = old
               /\ \A k \in 1..Len(Leaves(old)) :
                     IF k = Min(S)
                     THEN AuthorizationSet(Leaves(old)[k], Leaves(new)[k],
                                           CredentialValue(r.authType, r.authValue))
                     ELSE Leaves(new)[k] = Leaves(old)[k]
               /\ tasks'[i].result.requestName = Leaves(old)[Min(S)].name
C14_UpdateOnlyHeader == [][C14_Step]_vars

\* a basic credential was written to the leaf https://b.io/v inside the
\* folders of the tree: of its two Authorization headers the first, spelled
\* in capitals, has the raw credential, the second is as it was
C14_Witness ==
    \E i \in 1..Len(tasks) :
        /\ tasks[i].op = "update" /\ tasks[i].pc = "done"
        /\ tasks[i].collectionId = "c1"
        /\ Val(tasks[i].request).authType = "basic"
        /\ LET leaf == Leaves(ItemsOf(remote["c1"]))[2]
               header == Val(Val(leaf.request).header)
           IN /\ leaf.name = L_B.name
              /\ header[2] = [key |-> toUpperCase(S_authorization), value |-> <<"p","w">>]
              /\ header[3] = [key |-> S_authorization, value |-> S_old]
        /\ Leaves(ItemsOf(remote["c1"]))[1] = L_A1

\* the method of a leaf in capitals, GET when it has none
LeafMethod(leaf) ==
    IF IsSome(Val(leaf.request).method) /\ Val(Val(leaf.request).method) /= <<>>
    THEN toUpperCase(Val(Val(leaf.request).method)) ELSE <<"G","E","T">>
\* the positions in Leaves of the leaves with the pattern and the method of r
SamePatternAndMethod(leaves, r) ==
    {k \in PatternPositions(leaves, r.url) : LeafMethod(leaves[k]) = toUpperCase(r.method)}
\* leaf is the captured request r formatted: its name, method, URL and headers
FormattedFrom(leaf, r) ==
    /\ leaf.name = r.method \o <<" ">> \o UrlPathname(r.url)
    /\ IsLeaf(leaf)
    /\ Val(leaf.request).method = Some(r.method)
    /\ extractPostmanUrl(leaf) = r.url
    /\ Val(leaf.request).header = Some(r.headers)
    /\ leaf = [formatRequestForPostman(r) EXCEPT !.item = leaf.item]
\* the number of writes of invocation i the service applied
TimesApplied(i) == Cardinality({n \in 1..Len(hist.applied) : hist.applied[n].task = i})

\* C15: an upsert that gets as far as its write issues that one write in
\* both branches.  When the fetched document has a leaf with the pattern of
\* the captured URL and, in any case, its method, the first such leaf is
\* replaced where it is by the formatted request (request and name), no leaf
\* is added or removed and the result is "updated"; otherwise one leaf, the
\* formatted request, is appended at the top level after the unchanged
\* nodes, and the result is "created".  An upsert that returns had exactly
\* one write applied.
C15_Step ==
    \A i \in 1..Len(tasks) :
        (tasks[i].op = "upsert" /\ FetchAnswered(i)) =>
            LET old == ItemsOf(remote[tasks[i].collectionId])
                new == DocOf(tasks'[i])
                r == Val(tasks[i].request)
                S == SamePatternAndMethod(Leaves(old), r)
            IN /\ tasks'[i].writes = 1
               /\ IF S /= {}
                  THEN /\ tasks'[i].tag = "updated"
                       /\ Len(new) = Len(old)
                       /\ Len(Leaves(new)) = Len(Leaves(old))
                       /\ WithLeaves(new, Leaves(old)) = old
                       /\ \A k \in 1..Len(Leaves(old)) :
                             IF k = Min(S) THEN FormattedFrom(Leaves(new)[k], r)
                             ELSE Leaves(new)[k] = Leaves(old)[k]
                  ELSE /\ tasks'[i].tag = "created"
                       /\ Len(new) = Len(old) + 1
                       /\ SubSeq(new, 1, Len(old)) = old
                       /\ FormattedFrom(new[Len(new)], r)
                       /\ ~IsFolder(new[Len(new)])
C15_Inv ==
    \A i \in 1..Len(tasks) :
        (tasks[i].op = "upsert" /\ tasks[i].pc = "done") =>
            /\ tasks[i].writes = 1 /\ TimesApplied(i) = 1
            /\ tasks[i].tag \in {"updated", "created"}
C15_Upsert == []C15_Inv /\ [][C15_Step]_vars

\* POST https://a.io/u/42 was upserted into the tree: the GET leaf of the
\* pattern is as it was, the POST leaf after the folder is now "POST /u/42",
\* and the tree has the nodes it had
C15_Witness ==
    \E i \in 1..Len(tasks) :
        /\ tasks[i].op = "upsert" /\ tasks[i].pc = "done" /\ tasks[i].tag = "updated"
        /\ Val(tasks[i].request).method = M_POST
        /\ Val(tasks[i].request).url = U_A42
        /\ Len(hist.applied) = 1
        /\ LET items == ItemsOf(remote["c1"])
           IN /\ Len(items) = Len(ItemsOf(D_Tree))
              /\ items[1] = ItemsOf(D_Tree)[1]
              /\ items[2].name = <<"P","O","S","T"," ","/","u","/","4","2">>
              /\ items[3] = L_NoUrl

\* the positions in Leaves of the leaves whose URL has the host
HostPositions(leaves, host) ==
    {k \in 1..Len(leaves) : /\ CanExtractUrl(leaves[k])
                            /\ UrlParses(extractPostmanUrl(leaves[k]))
                            /\ UrlHost(extractPostmanUrl(leaves[k])) = host}
\* the names of the leaves at the positions S, in the order of Leaves
NamesAt(leaves, S) ==
    LET picked == SelectSeq([k \in 1..Len(leaves) |-> [k |-> k, name |-> leaves[k].name]],
                            LAMBDA e : e.k \in S)
    IN [n \in 1..Len(picked) |-> picked[n].name]

\* C16: a bulk rotation for host H that gets as far as its write puts, in
\* one write, the fetched document with the Authorization header set in
\* every leaf whose URL has host H, at any depth; every leaf of another
\* host, every leaf without a parseable URL and every folder are as fetched;
\* updatedCount, totalMatched and the length of requestNames are the number
\* of leaves of H.  A rotation that returns had exactly one write applied.
C16_Step ==
    \A i \in 1..Len(tasks) :
        (tasks[i].op = "bulk" /\ FetchAnswered(i)) =>
            LET old == ItemsOf(remote[tasks[i].collectionId])
                new == DocOf(tasks'[i])
                S == HostPositions(Leaves(old), Val(tasks[i].host))
                result == tasks'[i].result
            IN /\ S /= {}
               /\ tasks'[i].writes = 1
               /\ Len(Leaves(new)) = Len(Leaves(old))
               /\ WithLeaves(new, Leaves(old)) = old
               /\ \A k \in 1..Len(Leaves(old)) :
                     IF k \in S
                     THEN AuthorizationSet(Leaves(old)[k], Leaves(new)[k],
                                           CredentialValue(tasks[i].authType, Some(tasks[i].authValue)))
                     ELSE Leaves(new)[k] = Leaves(old)[k]
               /\ result.updatedCount = Cardinality(S)
               /\ result.totalMatched = Cardinality(S)
               /\ Len(result.requestNames) = Cardinality(S)
               /\ result.requestNames = NamesAt(Leaves(old), S)
C16_Inv ==
    \A i \in 1..Len(tasks) :
        (tasks[i].op = "bulk" /\ tasks[i].pc = "done") =>
            /\ tasks[i].writes = 1 /\ TimesApplied(i) = 1
            /\ tasks[i].result.updatedCount >= 1
            /\ ResponseTo(i) = Some(Success)
C16_BulkRotation == []C16_Inv /\ [][C16_Step]_vars

\* a bearer token was rotated for a.io in the tree: the leaf in the folder
\* has the new value in its header, the leaf at the top level has got an
\* Authorization header, the b.io leaf two folders down is as it was, and
\* one write did it
C16_Witness ==
    \E i \in 1..Len(tasks) :
        /\ tasks[i].op = "bulk" /\ tasks[i].pc = "done"
        /\ tasks[i].collectionId = "c1" /\ tasks[i].host = Some(H_A)
        /\ tasks[i].authType = "bearer"
        /\ tasks[i].result.updatedCount = 2
        /\ tasks[i].result.requestNames = <<L_A1.name, L_A2.name>>
        /\ Len(hist.applied) = 1
        /\ LET leaves == Leaves(ItemsOf(remote["c1"]))
           IN /\ Val(Val(leaves[1].request).header)
                    = <<[key |-> S_authorization, value |-> <<"B","e","a","r","e","r"," ","t">>]>>
              /\ leaves[2] = L_B
              /\ Len(Val(Val(leaves[3].request).header)) = 2
              /\ Val(Val(leaves[3].request).header)[2]
                    = [key |-> S_Authorization, value |-> <<"B","e","a","r","e","r"," ","t">>]
              /\ leaves[4] = L_NoUrl

\* C17: a bulk rotation whose fetch returns a document with no leaf whose
\* URL has the target host throws the no-requests-for-host error in that
\* step: it issues no write, the document the service holds stays as it is,
\* and the handler answers with that error.
C17_Step ==
    \A i \in 1..Len(tasks) :
        (/\ tasks[i].op = "bulk" /\ FetchReturned(i)
         /\ HostPositions(Leaves(ItemsOf(remote[tasks[i].collectionId])), Val(tasks[i].host)) = {}) =>
            /\ tasks'[i].pc = "failed"
            /\ tasks'[i].tag = "no-requests-for-host"
            /\ tasks'[i].error = E_NoRequestsForHost(Val(tasks[i].host))
            /\ tasks'[i].writes = 0 /\ tasks'[i].doc = None
            /\ remote' = remote
C17_Inv ==
    \A i \in 1..Len(tasks) :
        tasks[i].tag = "no-requests-for-host" =>
            /\ tasks[i].op = "bulk" /\ tasks[i].pc = "failed"
            /\ tasks[i].fetches = 1 /\ tasks[i].writes = 0
            /\ NeverApplied(i)
            /\ HostPositions(Leaves(ItemsOf(hist.fetched[i])), Val(tasks[i].host)) = {}
            /\ ResponseTo(i) = Some(Failure(E_NoRequestsForHost(Val(tasks[i].host))))
C17_NoHostFails == []C17_Inv /\ [][C17_Step]_vars

\* a rotation for a.io against the collection that has only a b.io leaf
\* failed, and the collection is as it was
C17_Witness ==
    \E i \in 1..Len(tasks) :
        /\ tasks[i].op = "bulk" /\ tasks[i].collectionId = "c2" /\ tasks[i].host = Some(H_A)
        /\ tasks[i].pc = "failed"
        /\ tasks[i].error = "No requests found for host \"a.io\" in this collection."
        /\ remote["c2"] = D_OnlyB
        /\ Len(hist.applied) = 0

(***************************************************************************)
(* C18.  Every remote call (GET /me, GET /collections,                     *)
(* GET /collections/{id}, PUT /collections/{id}) that receives status 401  *)
(* fails with the invalid-credential error, and every other non-2xx        *)
(* response fails with an error carrying the remote status text.           *)
(***************************************************************************)
InvalidKeyErrors == {E_InvalidKeyCheck, E_InvalidKeyReconfigure}
ErrorPrefixes == {"API Error: ", "Failed to fetch collections: ", "Failed to fetch collection: ",
                  "Failed to create request: ", "Failed to update token: ",
                  "Failed to upsert request: ", "Failed to update tokens: "}
\* the error carries the status text of a response with this status
CarriesStatusText(error, status) ==
    \E prefix \in ErrorPrefixes, resp \in Failures :
        /\ statusOf(resp) = status
        /\ error = prefix \o statusTextOrMessage(resp)

\* C18 as claimed: an invocation whose remote call was answered non-2xx has
\* the invalid-credential error when the status is 401, and an error with
\* the status text otherwise
C18_EveryCall ==
    \A i \in 1..Len(tasks) :
        (tasks[i].pc = "failed" /\ tasks[i].status /= 0) =>
            IF tasks[i].status = 401 THEN tasks[i].error \in InvalidKeyErrors
            ELSE CarriesStatusText(tasks[i].error, tasks[i].status)

(***************************************************************************)
(* C19.  Every message received, of any of the eleven types or of an       *)
(* unknown type, with or without payload, eventually receives exactly one  *)
(* response, provided every remote call eventually completes or fails; the *)
(* response is {success: true, data} or {success: false, error: string},   *)
(* and a failure of the operation a handler awaits is answered as the      *)
(* error of that response.                                                 *)
(***************************************************************************)
WellFormed(response) ==
    \/ response.success /\ response.error = ""
    \/ ~response.success /\ response.error \in STRING /\ response.error /= ""

C19_Inv ==
    \A k \in 1..Len(messages) :
        LET m == messages[k]
        IN /\ m.responses <= 1
           /\ m.responses = 1 => IsSome(m.response) /\ WellFormed(Val(m.response))
           /\ m.responses = 0 =>
                 /\ m.response = None
                 /\ m.task \in 1..Len(tasks)
                 /\ ~Finished(tasks[m.task])
           /\ m.task /= 0 /\ tasks[m.task].pc = "failed" =>
                 /\ tasks[m.task].error /= ""
                 /\ m.response = Some(Failure(tasks[m.task].error))
           /\ m.task /= 0 /\ tasks[m.task].pc = "done" => m.response = Some(Success)

\* a response once sent is the only one: the message never changes again
C19_Step ==
    /\ Len(messages') >= Len(messages)
    /\ \A k \in 1..Len(messages) :
          messages[k].responses = 1 => messages'[k] = messages[k]

C19_Eventually ==
    \A k \in 1..MaxMessages :
        (Len(messages) >= k) ~> (Len(messages) >= k /\ messages[k].responses = 1)

C19_OneResponse == []C19_Inv /\ [][C19_Step]_vars /\ C19_Eventually

\* a bulk rotation whose fetch was answered 401 has been answered with the
\* failure, after a message of an unknown type was answered at once
C19_Witness ==
    /\ Len(messages) = 2
    /\ messages[1].type = "PING"
    /\ messages[1].response = Some(Failure("Unknown message type: PING"))
    /\ messages[2].type = "UPDATE_HOST_TOKEN"
    /\ messages[2].task = 1
    /\ tasks[1].status = 401
    /\ messages[2].responses = 1
    /\ messages[2].response = Some(Failure("Failed to fetch collection: Unauthorized"))

(***************************************************************************)
(* C20.  SAVE_TO_POSTMAN and UPDATE_TOKEN for a request id that is not in  *)
(* the buffer when the command is handled (never recorded, evicted by      *)
(* later records, or removed by clear) respond with the request-not-found  *)
(* error and issue no remote fetch or write.                               *)
(***************************************************************************)
InBuffer(id) == \E k \in 1..Len(capturedRequests) : capturedRequests[k].id = id
LastMessage == messages'[Len(messages')]
NotFoundResponse ==
    Failure("Request not found. It may have been cleared from the capture list.")

\* the handler of such a message answers at once and starts no invocation
C20_Step ==
    (/\ Len(messages') = Len(messages) + 1
     /\ LastMessage.type \in {"SAVE_TO_POSTMAN", "UPDATE_TOKEN"}
     /\ IsSome(LastMessage.payload)
     /\ ~InBuffer(Val(LastMessage.payload).requestId))
    => /\ LastMessage.responses = 1
       /\ LastMessage.response = Some(NotFoundResponse)
       /\ LastMessage.task = 0
       /\ tasks' = tasks
       /\ remote' = remote

\* and no invocation ever belongs to it: its response stays the only effect
C20_Inv ==
    \A k \in 1..Len(messages) :
        messages[k].response = Some(NotFoundResponse) =>
            /\ messages[k].task = 0
            /\ messages[k].responses = 1
            /\ Len(tasks) < Len(messages)

C20_NotFound == []C20_Inv /\ [][C20_Step]_vars

\* with no clear, 101 records have evicted id 1: UPDATE_TOKEN for it was
\* answered not-found, then SAVE_TO_POSTMAN for the id not yet assigned
C20_Witness ==
    /\ Len(capturedRequests) = MAX_REQUESTS
    /\ ~InBuffer(1)
    /\ hist.sinceClear = nextId - 1
    /\ Len(messages) = 2
    /\ messages[1].type = "UPDATE_TOKEN"
    /\ Val(messages[1].payload).requestId = 1
    /\ messages[1].response = Some(NotFoundResponse)
    /\ messages[2].type = "SAVE_TO_POSTMAN"
    /\ Val(messages[2].payload).requestId = nextId
    /\ messages[2].response = Some(NotFoundResponse)
    /\ tasks = <<>>

(***************************************************************************)
(* C21.  For every header list the classifier returns the variant of the   *)
(* first rule, in the order bearer, basic, apikey, cookie, that any header *)
(* of the list matches, and none when no rule matches: the order of the    *)
(* headers in the list does not matter.                                    *)
(***************************************************************************)
\* the variant the rule precedence gives, whatever the order of the headers
RulePrecedence(headers) ==
    LET Name(i) == toLowerCase(headers[i].key)
        I == 1..Len(headers)
    IN IF \E i \in I : Name(i) = S_authorization /\ startsWith(headers[i].value, S_Bearer)
         THEN "bearer"
       ELSE IF \E i \in I : Name(i) = S_authorization /\ startsWith(headers[i].value, S_Basic)
         THEN "basic"
       ELSE IF \E i \in I : includes(Name(i), S_api_key) \/ includes(Name(i), S_apikey)
         THEN "apikey"
       ELSE IF \E i \in I : /\ Name(i) = S_cookie
                            /\ \E p \in sessionPatterns : includes(toLowerCase(headers[i].value), p)
         THEN "cookie"
       ELSE "none"

Classified == probe.fn = "detectAuthType" /\ probe.results /= <<>>

C21_RulePrecedence ==
    Classified => probe.results[1].type = RulePrecedence(probe.headers)

(***************************************************************************)
(* C22.  normalizeUrl is idempotent on every input string, parseable or    *)
(* not: normalizing the result of a call gives that result again.          *)
(***************************************************************************)
NormalizedTwice == probe.fn = "normalizeUrl" /\ Len(probe.results) = 2

C22_Idempotent == NormalizedTwice => probe.results[2] = probe.results[1]

(***************************************************************************)
(* C23.  normalizeUrl applies its four passes in the order UUID, numeric,  *)
(* token of 8 or more characters, 24 hexadecimal digits, each to the       *)
(* output of the pass before, and gives /api/users/:id for /api/users/123, *)
(* /api/users/:id/posts/:id for /api/users/abc-123-def/posts/456 and       *)
(* /api/products/:id for                                                   *)
(* /api/products/550e8400-e29b-41d4-a716-446655440000.                     *)
(***************************************************************************)
P_UsersId == P_Users \o S_id
P_UsersIdPostsId == P_Users \o S_id \o <<"/","p","o","s","t","s">> \o S_id
P_ProductsId == <<"/","a","p","i","/","p","r","o","d","u","c","t","s">> \o S_id

\* the pattern the claim gives for a path
ExamplePattern(path) ==
    CASE path = P_Users123 -> P_UsersId
      [] path = P_Posts456 -> P_UsersIdPostsId
      [] path = P_Uuid -> P_ProductsId

C23_Examples ==
    \A path \in {P_Users123, P_Posts456, P_Uuid} :
        (/\ probe.fn = "normalizeUrl"
         /\ probe.url = O_Api \o path
         /\ probe.results /= <<>>)
        => probe.results[1] = ExamplePattern(path)

(***************************************************************************)
(* C24.  normalizeUrl and the classifier never raise: normalizeUrl returns *)
(* a string that does not parse as an absolute URL unchanged, and the      *)
(* classifier returns a descriptor for every header list, the descriptor   *)
(* none when no header matches a rule.                                     *)
(***************************************************************************)
AuthTypes == {"bearer", "basic", "apikey", "cookie", "none"}

C24_NeverRaise ==
    /\ (probe.fn = "normalizeUrl" /\ probe.results /= <<>> /\ SchemeEnd(probe.url) = 0)
       => probe.results[1] = probe.url
    /\ Classified
       => /\ probe.results[1].type \in AuthTypes
          /\ probe.results[1].type = "none" <=> RulePrecedence(probe.headers) = "none"
          /\ probe.results[1].type = "none" <=> probe.results[1].value = None

\* "{{base}}/users/1" has no scheme: it came back as it was
C24_Witness ==
    /\ probe.fn = "normalizeUrl"
    /\ probe.url = U_Variable
    /\ ~UrlParses(probe.url)
    /\ probe.results = <<U_Variable>>

(***************************************************************************)
(* C25.  Pattern matching compares normalized paths only.  The             *)
(* pattern-only search returns a leaf when the tree has a leaf whose URL   *)
(* differs from the captured URL only in id-shaped path segments, query,   *)
(* fragment or host; the pattern+method search returns a leaf only if the  *)
(* leaf also has the captured method, compared without case, so it returns *)
(* no match when no pattern-matching leaf has that method.                 *)
(***************************************************************************)
\* the segments of a path that starts with "/"
RECURSIVE Segments(_)
Segments(p) ==
    IF p = <<>> THEN <<>>
    ELSE LET e == FirstOf(p, 2, {"/"})
         IN <<SubSeq(p, 2, e - 1)>> \o Segments(SubSeq(p, e, Len(p)))

\* a segment the normalizer's rules name: a number, a UUID, a token of 8 or
\* more characters, 24 hexadecimal digits
IdShaped(seg) ==
    \/ Len(seg) >= 1 /\ \A j \in 1..Len(seg) : seg[j] \in DigitChars
    \/ Len(seg) = 36 /\ \A j \in 1..36 : IF j \in {9, 14, 19, 24} THEN seg[j] = "-"
                                                                 ELSE seg[j] \in HexChars
    \/ Len(seg) >= 8 /\ \A j \in 1..Len(seg) : seg[j] \in TokenChars
    \/ Len(seg) = 24 /\ \A j \in 1..24 : seg[j] \in HexChars

\* two URLs that differ only in id-shaped segments, query, fragment or host
DifferOnlyInIds(u, v) ==
    /\ UrlParses(u) /\ UrlParses(v)
    /\ LET a == Segments(UrlPathname(u))
           b == Segments(UrlPathname(v))
       IN /\ Len(a) = Len(b)
          /\ \A j \in 1..Len(a) : a[j] = b[j] \/ (IdShaped(a[j]) /\ IdShaped(b[j]))

\* the positions of the nodes of a tree in depth-first pre-order
RECURSIVE PreOrderFrom(_, _)
PreOrderFrom(items, i) ==
    IF i > Len(items) THEN <<>>
    ELSE LET below == IF IsFolder(items[i]) THEN PreOrderFrom(Val(items[i].item), 1)
                      ELSE <<>>
         IN << <<i>> >> \o [k \in 1..Len(below) |-> <<i>> \o below[k]]
                        \o PreOrderFrom(items, i + 1)
PreOrder(items) == PreOrderFrom(items, 1)
LeafPositions(items) ==
    {PreOrder(items)[k] : k \in {j \in 1..Len(PreOrder(items)) :
                                    IsLeaf(NodeAt(items, PreOrder(items)[j]))}}

Searched(fn) == probe.fn = fn /\ probe.results /= <<>>

C25_NormalizedPathsOnly ==
    /\ Searched("findMatchingRequest")
       => ((\E pos \in LeafPositions(probe.items) :
               /\ CanExtractUrl(NodeAt(probe.items, pos))
               /\ DifferOnlyInIds(probe.capturedUrl,
                                  extractPostmanUrl(NodeAt(probe.items, pos))))
           => IsSome(probe.results[1]))
    /\ Searched("findMatchingRequestWithMethod")
       => /\ IsSome(probe.results[1])
             => /\ PatternMatches(probe.capturedUrl, NodeAt(probe.items, Val(probe.results[1])))
                /\ LeafMethod(NodeAt(probe.items, Val(probe.results[1])))
                       = toUpperCase(probe.method)
          /\ (\A pos \in LeafPositions(probe.items) :
                 PatternMatches(probe.capturedUrl, NodeAt(probe.items, pos))
                     => LeafMethod(NodeAt(probe.items, pos)) /= toUpperCase(probe.method))
             => probe.results[1] = None

(***************************************************************************)
(* C26.  On every finite tree the pattern-only and the pattern+method      *)
(* searches terminate and return the first matching node in depth-first    *)
(* pre-order, children visited in the order they appear, or null when no   *)
(* node matches.                                                           *)
(***************************************************************************)
\* the first position in pre-order whose node satisfies Match, None without one
FirstInPreOrder(items, Match(_)) ==
    LET S == {k \in 1..Len(PreOrder(items)) : Match(NodeAt(items, PreOrder(items)[k]))}
    IN IF S = {} THEN None ELSE Some(PreOrder(items)[Min(S)])

C26_FirstInPreOrder ==
    /\ Searched("findMatchingRequest")
       => LET Match(node) == PatternMatches(probe.capturedUrl, node)
          IN probe.results[1] = FirstInPreOrder(probe.items, Match)
    /\ Searched("findMatchingRequestWithMethod")
       => LET Match(node) == PatternMethodMatches(probe.capturedUrl, probe.method, node)
          IN probe.results[1] = FirstInPreOrder(probe.items, Match)

\* a GET leaf, then a folder whose inner folder and whose own list both hold
\* the POST leaf: the search for POST returned the leaf of the inner folder
C26_Witness ==
    /\ probe.fn = "findMatchingRequestWithMethod"
    /\ probe.capturedUrl = O_Api \o P_Items99
    /\ probe.method = M_POST
    /\ probe.items = <<T_Get42, Folder(<<"f">>, <<Folder(<<"k">>, <<T_Post7>>), T_Post7>>)>>
    /\ probe.results = <<Some(<<2, 1, 1>>)>>

(***************************************************************************)
(* C27.  The by-host search returns exactly the leaves, at every folder    *)
(* depth and in document order, whose URL parses and whose host[:port]     *)
(* equals the target host.  A leaf whose URL is missing or malformed is    *)
(* skipped and never keeps the leaves after it from being examined, in     *)
(* this search and in the pattern searches.                                *)
(***************************************************************************)
\* the positions of the nodes that satisfy Match, in document order
AllInDocumentOrder(items, Match(_)) ==
    LET Test(pos) == Match(NodeAt(items, pos))
    IN SelectSeq(PreOrder(items), Test)

HostEquals(host, node) ==
    /\ IsLeaf(node)
    /\ IsSome(Val(node.request).url)
    /\ UrlParses(Val(Val(node.request).url).raw)
    /\ UrlHost(Val(Val(node.request).url).raw) = host

C27_AllForHost ==
    /\ Searched("findAllRequestsForHost")
       => LET Match(node) == HostEquals(probe.host, node)
          IN probe.results[1] = AllInDocumentOrder(probe.items, Match)
    /\ Searched("findAllMatchingRequests")
       => LET Match(node) == PatternMatches(probe.capturedUrl, node)
          IN probe.results[1] = AllInDocumentOrder(probe.items, Match)
    /\ Searched("findMatchingRequest")
       => LET Match(node) == PatternMatches(probe.capturedUrl, node)
              all == AllInDocumentOrder(probe.items, Match)
          IN probe.results[1] = IF all = <<>> THEN None ELSE Some(all[1])

\* a leaf whose URL does not parse, then a folder with a leaf without URL in
\* its inner folder and a leaf of the host after it: that leaf was returned
C27_Witness ==
    /\ probe.fn = "findAllRequestsForHost"
    /\ probe.host = H_Api
    /\ probe.items = <<T_Variable, Folder(<<"f">>, <<Folder(<<"k">>, <<T_NoUrl>>), T_Get42>>)>>
    /\ probe.results = << << <<2, 2>> >> >>

\* C28: clear() empties the buffer and the pending-body table and changes
\* nothing else: the host aggregates, the capture session (armed flag, target,
\* counters, callback), the invocations and the remote documents are as
\* before; and a request finalized after the clear whose pre-send event came
\* before the clear is recorded without a body.
ClearStep == hist'.cmds = hist.cmds + 1
C28_Step ==
    /\ ClearStep =>
          /\ capturedRequests' = <<>>
          /\ requestBodies' = EmptyMap
          /\ UNCHANGED <<hostMap, captureState, onCaptureCallback, tasks, finalState,
                         apiKey, remote, now, nextId, inflight>>
    /\ \A id \in ReqIds :
          (RecordStep /\ IsSome(inflight[id]) /\ ~IsSome(inflight'[id]) /\ id \in hist.cleared)
             => Recorded.body = None
C28_ClearFrame == [][C28_Step]_vars

\* in an armed session one request was recorded, the pre-send event of a
\* second delivered its body, clear() ran and the second was then finalized:
\* it stands alone in the buffer without a body, while the aggregate of its
\* host and the session counter count both requests
C28_Witness ==
    /\ hist.cmds = 1
    /\ Len(capturedRequests) = 1
    /\ capturedRequests[1].url = U_A42
    /\ capturedRequests[1].body = None
    /\ requestBodies = EmptyMap
    /\ hostMap[H_A].requestCount = 2
    /\ captureState.isCapturing
    /\ captureState.capturedCount = 2

\* C29: a network event that is not admitted (a request type other than
\* xmlhttprequest and fetch, a browser-internal URL scheme, or a static asset
\* extension) leaves the state unchanged: the buffer, the pending-body table,
\* the host aggregates, the session with its capturedCount and the
\* invocations (no upsert is started) are as before, also when the session is
\* armed for the host of the event.
NotAdmitted(tx) ==
    \/ tx.type \notin {"xmlhttprequest", "fetch"}
    \/ \E p \in internalPrefixes : startsWith(tx.url, p)
    \/ \E ext \in staticExtensions : endsWith(toLowerCase(tx.url), ext)
\* the transaction of which this step delivers an event
EventOf(id) == IF IsSome(inflight'[id]) THEN Val(inflight'[id]) ELSE Val(inflight[id])
C29_Step ==
    \A id \in ReqIds :
        (inflight'[id] /= inflight[id] /\ NotAdmitted(EventOf(id)))
           => UNCHANGED <<capturedRequests, requestBodies, hostMap, captureState,
                          onCaptureCallback, tasks, finalState, apiKey, remote, now,
                          nextId, messages>>
WithAuthFor(h) ==
    {k \in 1..Len(capturedRequests) :
        /\ UrlParses(capturedRequests[k].url)
        /\ UrlHost(capturedRequests[k].url) = h
        /\ capturedRequests[k].authType /= "none"}
C30_Step ==
    \A h \in Hosts :
        (/\ Len(messages') = Len(messages) + 1
         /\ messages'[Len(messages')].type = "UPDATE_HOST_TOKEN"
         /\ Val(messages'[Len(messages')].payload).host = h)
        => IF WithAuthFor(h) = {}
           THEN /\ messages'[Len(messages')].responses = 1
                /\ ~Val(messages'[Len(messages')].response).success
                /\ messages'[Len(messages')].task = 0
                /\ UNCHANGED <<tasks, remote>>
           ELSE /\ Len(tasks') = Len(tasks) + 1
                /\ messages'[Len(messages')].task = Len(tasks')
                /\ tasks'[Len(tasks')].op = "bulk"
                /\ tasks'[Len(tasks')].host = Some(h)
                /\ tasks'[Len(tasks')].fetches = 0
                /\ tasks'[Len(tasks')].authType =
                      capturedRequests[Min(WithAuthFor(h))].authType
                /\ tasks'[Len(tasks')].authValue =
                      OrEmpty(capturedRequests[Min(WithAuthFor(h))].authValue)
C30_NewestWithAuth == [][C30_Step]_vars

\* the buffer holds two requests of a.io, the newest without credentials and
\* the older with basic ones: the command for a.io started the rotation with
\* the basic credentials; the command for b.io was answered with the error
C30_Witness ==
    /\ Len(capturedRequests) = 2
    /\ UrlHost(capturedRequests[1].url) = H_A /\ capturedRequests[1].authType = "none"
    /\ UrlHost(capturedRequests[2].url) = H_A /\ capturedRequests[2].authType = "basic"
    /\ Len(messages) = 2
    /\ messages[1].type = "UPDATE_HOST_TOKEN" /\ Val(messages[1].payload).host = H_B
    /\ messages[1].response = Some(Failure(E_NoAuthRequest(H_B)))
    /\ messages[2].type = "UPDATE_HOST_TOKEN" /\ Val(messages[2].payload).host = H_A
    /\ Len(tasks) = 1
    /\ tasks[1].op = "bulk" /\ tasks[1].authType = "basic"
    /\ tasks[1].authValue = <<"p","w">>

(***************************************************************************)
(* C31.  normalizeUrl replaces a path segment with :id only when the whole *)
(* segment has one of the four id shapes (UUID, number, 8 or more          *)
(* characters of letters, digits, '_' and '-', 24 hexadecimal digits) and  *)
(* then replaces the whole segment; a segment that only starts with such a *)
(* shape (digits followed by letters, a word of 8 or more characters       *)
(* followed by a dot and an extension) is left as it is.                   *)
(***************************************************************************)
\* the path in which each id-shaped segment is :id and every other is kept
RECURSIVE WholeSegmentPattern(_)
WholeSegmentPattern(segs) ==
    IF segs = <<>> THEN <<>>
    ELSE <<"/">> \o (IF IdShaped(segs[1]) THEN <<":","i","d">> ELSE segs[1])
                 \o WholeSegmentPattern(Tail(segs))

C31_WholeSegments ==
    (/\ probe.fn = "normalizeUrl"
     /\ probe.results /= <<>>
     /\ UrlParses(probe.url)
     /\ startsWith(UrlPathname(probe.url), <<"/">>))
    => probe.results[1] = WholeSegmentPattern(Segments(UrlPathname(probe.url)))

(***************************************************************************)
(* C32.  When no API key is stored, create, update-by-match, upsert, bulk  *)
(* host rotation and the collection listing each fail with the             *)
(* credential-missing error before any remote request is issued, and the   *)
(* remote documents are unchanged.                                         *)
(***************************************************************************)
KeyedOps == {"create", "update", "upsert", "bulk", "list"}
\* invocation i reads the key in this step
ReadsKey(i) == tasks[i].pc \in {"key", "qkey"} /\ tasks'[i].pc /= tasks[i].pc
C32_Step ==
    \A i \in 1..Len(tasks) :
        (tasks[i].op \in KeyedOps /\ ReadsKey(i) /\ ~IsSome(apiKey))
        => /\ tasks'[i].pc = "failed"
           /\ tasks'[i].tag = "credential-missing"
           /\ tasks'[i].error = E_NoApiKey
           /\ tasks'[i].fetches = 0 /\ tasks'[i].writes = 0
           /\ remote' = remote
           /\ \A k \in 1..Len(messages) :
                 messages[k].task = i
                    => messages'[k].response = Some(Failure(E_NoApiKey))
C32_Inv ==
    \A i \in 1..Len(tasks) :
        tasks[i].tag = "credential-missing"
           => tasks[i].pc = "failed" /\ tasks[i].fetches = 0 /\ tasks[i].writes = 0
C32_NoKeyFailsFirst == []C32_Inv /\ [][C32_Step]_vars

\* without a key, the upsert the capture started and the listing a message
\* asked for both failed with the credential-missing error; nothing was
\* fetched and the documents are the initial ones
C32_Witness ==
    /\ apiKey = None
    /\ Len(tasks) = 2
    /\ tasks[1].op = "upsert" /\ tasks[2].op = "list"
    /\ \A i \in 1..2 : tasks[i].pc = "failed" /\ tasks[i].error = E_NoApiKey
                       /\ tasks[i].fetches = 0
    /\ remote = InitialRemote
    /\ messages[Len(messages)].response = Some(Failure(E_NoApiKey))

(***************************************************************************)
(* C33.  In every reachable state, under any interleaving of start, stop,  *)
(* record and sync-completion events, syncedCount is at most               *)
(* capturedCount.                                                          *)
(***************************************************************************)
C33_SyncedAtMostCaptured == captureState.syncedCount <= captureState.capturedCount

(***************************************************************************)
(* C34.  In every reachable state the session is either fully armed or     *)
(* fully idle: isCapturing is true exactly when targetHost, collectionId   *)
(* and the sync callback are all set, and whenever isCapturing is false,   *)
(* targetHost and collectionId are null, the callback is null, and         *)
(* capturedCount and syncedCount are both 0, also after the upserts        *)
(* started before the stop have completed.                                 *)
(***************************************************************************)
C34_ArmedOrIdle ==
    /\ captureState.isCapturing <=>
          /\ IsSome(captureState.targetHost)
          /\ IsSome(captureState.collectionId)
          /\ IsSome(onCaptureCallback)
    /\ ~captureState.isCapturing =>
          /\ captureState.targetHost = None
          /\ captureState.collectionId = None
          /\ onCaptureCallback = None
          /\ captureState.capturedCount = 0
          /\ captureState.syncedCount = 0

(***************************************************************************)
(* C35.  In an armed session with no other client writing the collection,  *)
(* once every automatic upsert has completed, each captured request whose  *)
(* upsert reported success (and was counted in syncedCount) has a leaf     *)
(* with its normalized URL and method in the remote document, for every    *)
(* interleaving of the record events with the fetches and writes of the    *)
(* upserts.                                                                *)
(***************************************************************************)
AllCompleted == \A i \in 1..Len(tasks) : tasks[i].pc \in {"done", "failed"}
\* the document of collection c has a leaf with the pattern and method of r
HasLeafFor(c, r) ==
    \E k \in 1..Len(Leaves(ItemsOf(remote[c]))) :
        k \in SamePatternAndMethod(Leaves(ItemsOf(remote[c])), r)
C35_SyncedHasLeaf ==
    (hist.armed /\ AllCompleted)
    => \A i \in 1..Len(tasks) :
          (tasks[i].auto /\ tasks[i].pc = "done")
          => HasLeafFor(tasks[i].collectionId, Val(tasks[i].request))

(***************************************************************************)
(* C36.  In every reachable state, for every host h, the requestCount of   *)
(* its aggregate is at least the number of requests for h in the buffer,   *)
(* and every host of a buffered request with a parseable URL has an        *)
(* aggregate; eviction and clear() never lower a requestCount or remove an *)
(* aggregate, so the hosts GET_HOSTS lists may include one for which the   *)
(* buffer holds no request.                                                *)
(***************************************************************************)
BufferedFor(h) == Len(getRequestsByHost(h))
BufferedHosts ==
    {UrlHost(capturedRequests[k].url) :
        k \in {j \in 1..Len(capturedRequests) : UrlParses(capturedRequests[j].url)}}
C36_Inv ==
    /\ BufferedHosts \subseteq DOMAIN hostMap
    /\ \A h \in DOMAIN hostMap : hostMap[h].requestCount >= BufferedFor(h)
C36_Step ==
    \A h \in DOMAIN hostMap :
        /\ h \in DOMAIN hostMap'
        /\ hostMap'[h].requestCount >= hostMap[h].requestCount
C36_CountsCoverBuffer == []C36_Inv /\ [][C36_Step]_vars

\* more requests of b.io were recorded than the buffer keeps and clear() then
\* emptied the buffer: the aggregate of b.io is listed with all of them
C36_Witness ==
    /\ capturedRequests = <<>>
    /\ hist.cmds = 1
    /\ H_B \in DOMAIN hostMap
    /\ hostMap[H_B].requestCount > MAX_REQUESTS

(***************************************************************************)
(* C37.  In every reachable state the pending-body table holds an entry    *)
(* for transport id X only if, since the last clear(), an admitted         *)
(* pre-send event for X carrying a body was seen and no admitted           *)
(* headers-ready event for X has been seen since; an entry whose           *)
(* headers-ready event does not arrive is removed only by clear(), so the  *)
(* table grows with the transactions in flight.                            *)
(***************************************************************************)
C37_Inv ==
    \A id \in DOMAIN requestBodies :
        /\ id \in ReqIds
        /\ IsSome(inflight[id])
        /\ id \notin hist.cleared
        /\ ~NotAdmitted(Val(inflight[id]))
        /\ Val(inflight[id]).requestBody = Some(requestBodies[id])
C37_Step ==
    \A id \in DOMAIN requestBodies :
        id \notin DOMAIN requestBodies'
           => \/ ClearStep
              \/ IsSome(inflight[id]) /\ ~IsSome(inflight'[id])
C37_PendingBodies == []C37_Inv /\ [][C37_Step]_vars

\* after a clear(), the pre-send events of two transactions delivered their
\* bodies and neither headers-ready event has arrived: the table holds both
C37_Witness ==
    /\ hist.cmds = 1
    /\ DOMAIN requestBodies = {"r1", "r2"}
    /\ capturedRequests = <<>>
    /\ \A id \in ReqIds : IsSome(inflight[id])

(***************************************************************************)
(* C38.  For every captured URL and every tree, findMatchingRequest        *)
(* returns the first element of findAllMatchingRequests on the same        *)
(* arguments, and null exactly when that list is empty; and                *)
(* findMatchingRequestWithMethod returns the first of the elements of      *)
(* findAllMatchingRequests whose method (GET when the leaf has none)       *)
(* equals the queried method in any case, null when there is none.         *)
(***************************************************************************)
FirstOrNone(list) == IF list = <<>> THEN None ELSE Some(list[1])
\* the elements of findAllMatchingRequests with the queried method
AllWithMethod(capturedUrl, method, items) ==
    LET HasMethod(pos) == LeafMethod(NodeAt(items, pos)) = toUpperCase(method)
    IN SelectSeq(findAllMatchingRequests(capturedUrl, items), HasMethod)
C38_FirstOfAll ==
    /\ Searched("findMatchingRequest")
       => probe.results[1] =
             FirstOrNone(findAllMatchingRequests(probe.capturedUrl, probe.items))
    /\ Searched("findMatchingRequestWithMethod")
       => probe.results[1] =
             FirstOrNone(AllWithMethod(probe.capturedUrl, probe.method, probe.items))

\* a folder whose inner folder holds a GET leaf of the pattern, then a POST
\* leaf of the pattern: the search with POST returned the second element of
\* the list of all matches
C38_Witness ==
    /\ probe.fn = "findMatchingRequestWithMethod"
    /\ probe.capturedUrl = O_Api \o P_Items99
    /\ probe.method = M_POST
    /\ probe.items = <<Folder(<<"f">>, <<Folder(<<"k">>, <<T_Get42>>), T_NoUrl>>), T_Post7>>
    /\ probe.results = <<Some(<<2>>)>>
    /\ findAllMatchingRequests(probe.capturedUrl, probe.items) = << <<1, 1, 1>>, <<2>> >>

(***************************************************************************)
(* C39.  Upsert is idempotent when run sequentially: an upsert that        *)
(* fetched the document an earlier upsert of a request with the same       *)
(* normalized URL and method had written returns "updated" and adds no     *)
(* leaf, so that the two together add at most one leaf; when the two       *)
(* captured requests are the same (all but id and timestamp), the second   *)
(* writes a document equal to the one the first wrote.                     *)
(***************************************************************************)
SameRequest(r1, r2) ==
    [r1 EXCEPT !.id = 0, !.timestamp = 0] = [r2 EXCEPT !.id = 0, !.timestamp = 0]
SharePatternAndMethod(r1, r2) ==
    /\ normalizeUrl(r1.url) = normalizeUrl(r2.url)
    /\ toUpperCase(r1.method) = toUpperCase(r2.method)
UpsertsInSequence(i, j) ==
    /\ tasks[i].op = "upsert" /\ tasks[j].op = "upsert"
    /\ Sequential(i, j)
    /\ SharePatternAndMethod(Val(tasks[i].request), Val(tasks[j].request))
C39_UpsertIdempotent ==
    \A i, j \in 1..Len(tasks) :
        UpsertsInSequence(i, j) =>
            /\ tasks[j].tag = "updated"
            /\ Len(Leaves(DocOf(tasks[j]))) = Len(Leaves(DocOf(tasks[i])))
            /\ Len(Leaves(DocOf(tasks[j]))) <= Len(Leaves(ItemsOf(hist.fetched[i]))) + 1
            /\ SameRequest(Val(tasks[i].request), Val(tasks[j].request))
                  => Val(tasks[j].doc) = Val(tasks[i].doc)

\* POST /u/42 was captured twice; the first upsert appended its leaf to the
\* folder of c1, the second, started after that write, replaced the leaf by
\* an equal one
C39_Witness ==
    /\ Len(tasks) = 2
    /\ UpsertsInSequence(1, 2)
    /\ tasks[1].pc = "done" /\ tasks[2].pc = "done"
    /\ tasks[1].collectionId = "c1"
    /\ tasks[1].tag = "created" /\ tasks[2].tag = "updated"
    /\ Val(tasks[1].request).method = M_POST /\ Val(tasks[1].request).url = U_A42
    /\ SameRequest(Val(tasks[1].request), Val(tasks[2].request))
    /\ Val(tasks[1].request).id /= Val(tasks[2].request).id
    /\ remote["c1"] = Val(tasks[1].doc)
    /\ Len(Leaves(ItemsOf(remote["c1"]))) = Len(Leaves(ItemsOf(D_Folder))) + 1

(***************************************************************************)
(* C40.  UPDATE_TOKEN is not guarded by the auth type of the captured      *)
(* request: an update-by-match of a buffered request of auth type none     *)
(* whose fetch is answered with a document that has a leaf of its URL      *)
(* pattern goes on to its write, and the document it puts has the matched  *)
(* leaf with the value of its first Authorization header set to the empty  *)
(* string, whatever credential it held, or with an empty Authorization     *)
(* header appended when it had none; when the write is answered the        *)
(* command reports success.                                                *)
(***************************************************************************)
\* the positions of the Authorization headers of a leaf
AuthHeaders(leaf) ==
    {k \in 1..Len(Val(Val(leaf.request).header)) :
        toLowerCase(Val(Val(leaf.request).header)[k].key) = S_authorization}
\* the fetch of invocation i is answered with the document in this step
FetchedNow(i) == i \notin DOMAIN hist.fetched /\ i \in DOMAIN hist'.fetched
UpdateWithoutCredential(task) ==
    task.op = "update" /\ Val(task.request).authType = "none"
C40_Step ==
    \A i \in 1..Len(tasks) :
        (UpdateWithoutCredential(tasks[i]) /\ FetchedNow(i)) =>
            LET old == ItemsOf(remote[tasks[i].collectionId])
                pos == findMatchingRequest(Val(tasks[i].request).url, old)
            IN (IsSome(pos) /\ CanSetAuth(NodeAt(old, Val(pos)))) =>
                  /\ tasks'[i].pc = "write"
                  /\ LET before == Val(Val(NodeAt(old, Val(pos)).request).header)
                         leaf == NodeAt(DocOf(tasks'[i]), Val(pos))
                         after == Val(Val(leaf.request).header)
                     IN /\ AuthHeaders(leaf) /= {}
                        /\ after[Min(AuthHeaders(leaf))].value = <<>>
                        /\ AuthHeaders(NodeAt(old, Val(pos))) = {}
                              => after = Append(before, [key |-> S_Authorization, value |-> <<>>])
                        /\ AuthHeaders(NodeAt(old, Val(pos))) /= {}
                              => after = [before EXCEPT ![Min(AuthHeaders(leaf))].value = <<>>]
C40_Inv ==
    \A i \in 1..Len(tasks) :
        (UpdateWithoutCredential(tasks[i]) /\ tasks[i].pc = "done") => ReportedSuccess(i)
C40_NoAuthTypeGuard == []C40_Inv /\ [][C40_Step]_vars

\* a request to https://a.io/u/42 without Authorization header was used to
\* update the tree: the command reported success and the leaf "one", which
\* held the credential "old", now has the empty string
C40_Witness ==
    \E i \in 1..Len(tasks) :
        /\ UpdateWithoutCredential(tasks[i])
        /\ Val(tasks[i].request).url = U_A42
        /\ Val(tasks[i].request).headers = <<>>
        /\ tasks[i].collectionId = "c1"
        /\ ReportedSuccess(i)
        /\ remote["c1"] = Val(tasks[i].doc)
        /\ Val(Val(L_A1.request).header)[1].value = S_old
        /\ LET leaf == Leaves(ItemsOf(remote["c1"]))[1]
           IN /\ leaf.name = L_A1.name
              /\ Val(Val(leaf.request).header) = <<[key |-> S_authorization, value |-> <<>>]>>

====
